---------------------------- MODULE Spec2Model ----------------------------
(***************************************************************************)
(* A model of the NHANES CHD study pipeline:                               *)
(*   scripts/02_harmonize_variables.py  (process_cycle, main, the derived  *)
(*                                       variable functions)                *)
(*   scripts/03_statistical_analysis.py (the estimator, age_standardize,    *)
(*                                       the analyzers)                     *)
(*   scripts/06_nhanes_iii_harmonize.py (the legacy harmonizer)             *)
(*                                                                         *)
(* Numbers.  A float is modelled by an exact rational or by one of the     *)
(* IEEE specials the code can produce: [k |-> "fin", n, d] is n/d in       *)
(* lowest terms with d > 0, and k is "nan", "inf" or "ninf" otherwise.     *)
(* A cell of a data frame is <<>> (NaN, a missing value) or <<v>>.         *)
(***************************************************************************)
EXTENDS Integers, Sequences, FiniteSets, TLC

VARIABLES
    \* ---- age_standardize / analyze_prevalence_by_era (03, lines 75-116)
    prevalence_by_age,  \* the mapping handed to age_standardize
    total_weight,       \* the local total_weight of age_standardize
    standardized,       \* the value age_standardize returns
    age_std_prev,       \* the value analyze_prevalence_by_era stores (line 116)
    pcAge,
    \* ---- calculate_survey_weighted_prevalence (03, lines 33-72)
    df,                 \* the records handed to the estimator: [outcome, weight]
    result,             \* the dict it returns
    pcEst,
    \* ---- 02_harmonize_variables.py main, lines 338-350
    combined,           \* the combined data frame
    pcMain,             \* the statement of main that runs next
    \* ---- 06_nhanes_iii_harmonize.py harmonize_nhanes_iii
    adult,              \* the NHANES III adult frame
    pcLegacy,
    \* ---- 02_harmonize_variables.py process_cycle
    cycle,              \* the cycle identifier
    cycle_dir,          \* the files of DATA_RAW / cycle that the globs find
    slice,              \* what process_cycle returns, or the exception it raises
    pcCycle,
    \* ---- 02_harmonize_variables.py main, lines 324-340
    data_raw,           \* DATA_RAW: for each cycle of main's list, its directory
    cycle_idx,          \* how many cycles of the list the loop has gone through
    all_data,           \* the list all_data
    \* ---- a call of create_chd_composite (02, lines 168-190)
    arg_var_type,       \* its argument var_type
    composite,          \* the series it returns, or the exception it raises
    pcChd,
    \* ---- 03_statistical_analysis.py analyze_risk_factors_by_era
    analytic,           \* the rows of the data frame handed to the analyzer
    table2,             \* the rows it returns, or the exception it raises
    pcAn,
    \* ---- a call of create_age_groups (03, lines 26-30)
    age_arg,            \* its argument age, one cell of the series
    group_cell,         \* the cell of the series it returns
    pcGroup,
    \* ---- 03_statistical_analysis.py main, lines 195-257
    loaded,             \* the data frame read from the harmonized file
    table1,             \* what analyze_prevalence_by_era returns
    age_prevs,          \* for each row of table1, the mapping age_prev of its era
    table3,             \* what analyze_by_subgroup returns for sex
    table4,             \* what analyze_by_subgroup returns for race/ethnicity
    pcRun               \* the statement of main that runs next

ageVars == <<prevalence_by_age, total_weight, standardized, age_std_prev, pcAge>>
estVars == <<df, result, pcEst>>
deriveVars == <<combined, pcMain>>
legacyVars == <<adult, pcLegacy>>
cycleVars == <<cycle, cycle_dir, slice, pcCycle>>
mainVars == <<data_raw, cycle_idx, all_data>>
chdVars == <<arg_var_type, composite, pcChd>>
anVars == <<analytic, table2, pcAn>>
groupVars == <<age_arg, group_cell, pcGroup>>
runVars == <<loaded, table1, age_prevs, table3, table4, pcRun>>

vars == <<prevalence_by_age, total_weight, standardized, age_std_prev, pcAge,
          df, result, pcEst, combined, pcMain, adult, pcLegacy,
          cycle, cycle_dir, slice, pcCycle, data_raw, cycle_idx, all_data,
          arg_var_type, composite, pcChd, analytic, table2, pcAn,
          age_arg, group_cell, pcGroup, loaded, table1, age_prevs, table3, table4,
          pcRun>>

----------------------------------------------------------------------------
(* Exact rational arithmetic standing for the code's float arithmetic.     *)

Abs(x) == IF x < 0 THEN -x ELSE x

RECURSIVE GCD(_, _)
GCD(a, b) == IF b = 0 THEN a ELSE GCD(b, a % b)

NaN == [k |-> "nan", n |-> 0, d |-> 1]
PosInf == [k |-> "inf", n |-> 0, d |-> 1]
NegInf == [k |-> "ninf", n |-> 0, d |-> 1]

\* n/d in lowest terms, d > 0
Rat(n, d) ==
    LET s == IF d < 0 THEN -1 ELSE 1
        g == GCD(Abs(n), Abs(d))
    IN  [k |-> "fin", n |-> (s * n) \div g, d |-> (s * d) \div g]

IsFin(x) == x.k = "fin"

\* float division: x / 0 is nan, inf or -inf (numpy warns, it does not raise)
RatDiv(x, y) ==
    IF ~IsFin(x) \/ ~IsFin(y) THEN NaN
    ELSE IF y.n = 0
         THEN (IF x.n = 0 THEN NaN ELSE IF x.n > 0 THEN PosInf ELSE NegInf)
         ELSE LET g1 == GCD(Abs(x.n), Abs(y.n))
                  g2 == GCD(x.d, y.d)
              IN  Rat((x.n \div g1) * (y.d \div g2), (x.d \div g2) * (y.n \div g1))

\* the comparison and the arithmetic cancel common factors before they
\* multiply, which keeps the integers small
RatLt(x, y) ==
    /\ IsFin(x)
    /\ IsFin(y)
    /\ LET g == GCD(x.d, y.d)
       IN  x.n * (y.d \div g) < y.n * (x.d \div g)

RatMul(x, y) ==
    LET g1 == GCD(Abs(x.n), y.d)
        g2 == GCD(Abs(y.n), x.d)
        h1 == IF g1 = 0 THEN 1 ELSE g1
        h2 == IF g2 = 0 THEN 1 ELSE g2
    IN  Rat((x.n \div h1) * (y.n \div h2), (x.d \div h2) * (y.d \div h1))

RatSub(x, y) ==
    LET g == GCD(x.d, y.d)
    IN  Rat(x.n * (y.d \div g) - y.n * (x.d \div g), (x.d \div g) * y.d)

RatAdd(x, y) == IF IsFin(x) /\ IsFin(y) THEN RatSub(x, Rat(-y.n, y.d)) ELSE NaN

\* a + (c/100) * sqrt(r) for rationals a and r >= 0: a value the code gets
\* from np.sqrt, kept exact
Surd(a, c, r) ==
    IF r.n = 0 \/ c = 0 THEN a
    ELSE [k |-> "surd", n |-> a.n, d |-> a.d, c |-> c, rn |-> r.n, rd |-> r.d]

\* a cell of a data frame
Missing == <<>>
IsMissing(c) == c = <<>>

----------------------------------------------------------------------------
(* 03_statistical_analysis.py: the reference population and                *)
(* age_standardize.                                                        *)

\* the weights of US_STD_2000 are written with four decimals: unit 1/WScale
WScale == 10000

\* a prevalence of the input mapping is one of 0/PrevDen .. PrevDen/PrevDen
PrevDen == 2

AgeLabels == <<"20-29", "30-39", "40-49", "50-59", "60-69", "70-79", "80+">>

US_STD_2000 ==
    [b \in {AgeLabels[i] : i \in 1..Len(AgeLabels)} |->
        CASE b = "20-29" -> 1318
          [] b = "30-39" -> 1342
          [] b = "40-49" -> 1354
          [] b = "50-59" -> 933
          [] b = "60-69" -> 640
          [] b = "70-79" -> 463
          [] b = "80+"   -> 229]

\* a key a caller may pass that is no reference bucket
OtherLabel == "0-19"

\* the loop of age_standardize (lines 84-87) over the first i buckets:
\* <<sum of prevalence x weight, sum of weight>>
RECURSIVE StdLoop(_, _)
StdLoop(pba, i) ==
    IF i = 0 THEN <<0, 0>>
    ELSE LET acc == StdLoop(pba, i - 1)
             age_group == AgeLabels[i]
         IN  IF age_group \in DOMAIN pba
             THEN <<acc[1] + pba[age_group] * US_STD_2000[age_group],
                    acc[2] + US_STD_2000[age_group]>>
             ELSE acc

TotalWeight(pba) == StdLoop(pba, Len(AgeLabels))[2]
WeightedSum(pba) == StdLoop(pba, Len(AgeLabels))[1]

\* lines 89-93: divide by total_weight only when 0 < total_weight < 1
age_standardize(pba) ==
    LET s  == Rat(WeightedSum(pba), PrevDen * WScale)
        tw == TotalWeight(pba)
    IN  IF tw > 0 /\ tw < WScale THEN RatDiv(s, Rat(tw, WScale)) ELSE s

\* the mappings given to age_standardize
AgeInputs ==
    UNION {[ks -> 0..PrevDen] : ks \in SUBSET (DOMAIN US_STD_2000 \cup {OtherLabel})}

InitAge ==
    /\ prevalence_by_age \in AgeInputs
    /\ total_weight = 0
    /\ standardized = NaN
    /\ age_std_prev = NaN
    /\ pcAge = "input"
    /\ df = <<>>
    /\ result = [n |-> -1]
    /\ pcEst = "idle"
    /\ combined = [cols |-> {}, rows |-> <<>>]
    /\ pcMain = "idle"
    /\ adult = [cols |-> {}, rows |-> <<>>]
    /\ pcLegacy = "idle"
    /\ cycle = ""
    /\ cycle_dir = [demo |-> <<>>, comp |-> <<>>]
    /\ slice = [status |-> "none", df |-> [cols |-> {}, rows |-> <<>>]]
    /\ pcCycle = "idle"
    /\ data_raw = <<>>
    /\ cycle_idx = 0
    /\ all_data = <<>>
    /\ arg_var_type = ""
    /\ composite = [status |-> "none", series |-> <<>>]
    /\ pcChd = "idle"
    /\ analytic = <<>>
    /\ table2 = [status |-> "none", rows |-> <<>>]
    /\ pcAn = "idle"
    /\ age_arg = <<>>
    /\ group_cell = <<>>
    /\ pcGroup = "idle"
    /\ loaded = [cols |-> {}, rows |-> <<>>]
    /\ table1 = [status |-> "none", rows |-> <<>>]
    /\ age_prevs = <<>>
    /\ table3 = [status |-> "none", rows |-> <<>>]
    /\ table4 = [status |-> "none", rows |-> <<>>]
    /\ pcRun = "idle"

\* a direct call of age_standardize
AgeStandardize ==
    /\ pcAge = "input"
    /\ total_weight' = TotalWeight(prevalence_by_age)
    /\ standardized' = age_standardize(prevalence_by_age)
    /\ pcAge' = "returned"
    /\ UNCHANGED <<prevalence_by_age, age_std_prev>>

\* line 116 of analyze_prevalence_by_era: an empty mapping is not passed on.
\* The analyzer's mapping has reference buckets as its only keys (line 109).
AnalyzerAgeStd ==
    /\ pcAge = "input"
    /\ DOMAIN prevalence_by_age \subseteq DOMAIN US_STD_2000
    /\ IF DOMAIN prevalence_by_age # {}
       THEN /\ total_weight' = TotalWeight(prevalence_by_age)
            /\ standardized' = age_standardize(prevalence_by_age)
            /\ age_std_prev' = standardized'
       ELSE /\ age_std_prev' = NaN
            /\ UNCHANGED <<total_weight, standardized>>
    /\ pcAge' = "analyzed"
    /\ UNCHANGED prevalence_by_age

NextAge ==
    (AgeStandardize \/ AnalyzerAgeStd)
    /\ UNCHANGED <<estVars, deriveVars, legacyVars, cycleVars, mainVars, chdVars, anVars,
                 groupVars, runVars>>

----------------------------------------------------------------------------
(* 03_statistical_analysis.py: calculate_survey_weighted_prevalence.       *)

\* the estimator's input holds at most MaxRecs records
MaxRecs == 3

OutcomeCells == {Missing, <<0>>, <<1>>}
WeightCells == {Missing, <<-1>>, <<0>>, <<1>>, <<2>>}
EstRecords == [outcome : OutcomeCells, weight : WeightCells]

\* line 46: df[[outcome, weight]].dropna()
IsValid(r) == ~IsMissing(r.outcome) /\ ~IsMissing(r.weight)
DropNA(recs) == SelectSeq(recs, IsValid)

RECURSIVE SumOW(_)
SumOW(recs) ==
    IF recs = <<>> THEN 0
    ELSE Head(recs).outcome[1] * Head(recs).weight[1] + SumOW(Tail(recs))

\* the number of records where the sum of their weights belongs: an
\* unweighted mean
CountRecs(recs) == Len(recs)

RECURSIVE SumW(_)
SumW(recs) == IF recs = <<>> THEN 0 ELSE Head(recs).weight[1] + SumW(Tail(recs))

RECURSIVE SumO(_)
SumO(recs) == IF recs = <<>> THEN 0 ELSE Head(recs).outcome[1] + SumO(Tail(recs))

\* line 59: np.sqrt(p * (1 - p) / n) is nan for a p that is not finite or
\* lies outside [0, 1]; otherwise the radicand
SeRadicand(p, n) ==
    IF ~IsFin(p) THEN NaN
    ELSE LET r == RatMul(RatMul(p, RatSub(Rat(1, 1), p)), Rat(1, n))
         IN  IF r.n < 0 THEN NaN ELSE r

\* 1.96 squared
Z2 == Rat(38416, 10000)

\* a lower bound that is not clipped at 0
CiLowUnclipped(p, r) == IF IsFin(p) /\ IsFin(r) THEN Surd(p, -196, r) ELSE NaN

\* line 62: max(0, x) is x only when x > 0 (a nan x leaves 0)
CiLow(p, r) ==
    IF IsFin(p) /\ IsFin(r) /\ p.n > 0 /\ RatLt(RatMul(Z2, r), RatMul(p, p))
    THEN Surd(p, -196, r) ELSE Rat(0, 1)

\* line 63: min(1, x) is x only when x < 1 (a nan x leaves 1)
CiHigh(p, r) ==
    LET q == RatSub(Rat(1, 1), p)
    IN  IF IsFin(p) /\ IsFin(r) /\ q.n > 0 /\ RatLt(RatMul(Z2, r), RatMul(q, q))
        THEN Surd(p, 196, r) ELSE Rat(1, 1)

calculate_survey_weighted_prevalence(recs) ==
    LET valid == DropNA(recs)
    IN  IF Len(valid) = 0
        THEN [prevalence |-> NaN, se |-> NaN, ci_low |-> NaN, ci_high |-> NaN,
              n |-> 0]
        ELSE LET weighted_sum == SumOW(valid)
                 tw == SumW(valid)
                 prevalence == RatDiv(Rat(weighted_sum, 1), Rat(tw, 1))
                 n == Len(valid)
                 r == SeRadicand(prevalence, n)
             IN  [prevalence |-> prevalence,
                  se |-> IF IsFin(r) THEN Surd(Rat(0, 1), 100, r) ELSE NaN,
                  ci_low |-> CiLow(prevalence, r),
                  ci_high |-> CiHigh(prevalence, r),
                  n |-> n,
                  n_cases |-> SumO(valid)]

RECURSIVE SeqsUpTo(_, _)
SeqsUpTo(S, k) ==
    IF k = 0 THEN {<<>>}
    ELSE LET shorter == SeqsUpTo(S, k - 1)
         IN  shorter \cup {Append(q, x) : q \in {t \in shorter : Len(t) = k - 1}, x \in S}

NoResult == [n |-> -1]

InitEst ==
    /\ df \in SeqsUpTo(EstRecords, MaxRecs)
    /\ result = NoResult
    /\ pcEst = "input"
    /\ prevalence_by_age = <<>>
    /\ total_weight = 0
    /\ standardized = NaN
    /\ age_std_prev = NaN
    /\ pcAge = "idle"
    /\ combined = [cols |-> {}, rows |-> <<>>]
    /\ pcMain = "idle"
    /\ adult = [cols |-> {}, rows |-> <<>>]
    /\ pcLegacy = "idle"
    /\ cycle = ""
    /\ cycle_dir = [demo |-> <<>>, comp |-> <<>>]
    /\ slice = [status |-> "none", df |-> [cols |-> {}, rows |-> <<>>]]
    /\ pcCycle = "idle"
    /\ data_raw = <<>>
    /\ cycle_idx = 0
    /\ all_data = <<>>
    /\ arg_var_type = ""
    /\ composite = [status |-> "none", series |-> <<>>]
    /\ pcChd = "idle"
    /\ analytic = <<>>
    /\ table2 = [status |-> "none", rows |-> <<>>]
    /\ pcAn = "idle"
    /\ age_arg = <<>>
    /\ group_cell = <<>>
    /\ pcGroup = "idle"
    /\ loaded = [cols |-> {}, rows |-> <<>>]
    /\ table1 = [status |-> "none", rows |-> <<>>]
    /\ age_prevs = <<>>
    /\ table3 = [status |-> "none", rows |-> <<>>]
    /\ table4 = [status |-> "none", rows |-> <<>>]
    /\ pcRun = "idle"

Estimate ==
    /\ pcEst = "input"
    /\ result' = calculate_survey_weighted_prevalence(df)
    /\ pcEst' = "returned"
    /\ UNCHANGED df

NextEst ==
    Estimate
    /\ UNCHANGED <<ageVars, deriveVars, legacyVars, cycleVars, mainVars, chdVars, anVars,
                 groupVars, runVars>>

----------------------------------------------------------------------------
(* Data frames.  A frame is [cols, rows]: the set of its column names and  *)
(* the sequence of its rows, each a function from cols to cells.  pandas   *)
(* evaluates comparisons and arithmetic cell by cell; a comparison with a  *)
(* missing cell is False.                                                  *)

EmptyFrame == [cols |-> {}, rows |-> <<>>]

NRows(fr) == Len(fr.rows)

\* df.get(name, pd.Series([np.nan] * len(df)))
Col(fr, name) ==
    [i \in 1..NRows(fr) |-> IF name \in fr.cols THEN fr.rows[i][name] ELSE Missing]

\* df[name] = series
SetCol(fr, name, series) ==
    [cols |-> fr.cols \cup {name},
     rows |-> [i \in 1..NRows(fr) |->
                 [c \in fr.cols \cup {name} |->
                     IF c = name THEN series[i] ELSE fr.rows[i][c]]]]

CellEq(c, v) == ~IsMissing(c) /\ c[1] = v
CellGe(c, v) == ~IsMissing(c) /\ c[1] >= v

\* (boolean series).astype(float)
AsFloat(b) == IF b THEN <<1>> ELSE <<0>>

----------------------------------------------------------------------------
(* 02_harmonize_variables.py: the crosswalk tables and the derived         *)
(* variables.                                                              *)

CHD_VARS ==
    [continuous |-> [chd |-> "MCQ160C", angina |-> "MCQ160D", mi |-> "MCQ160E"],
     nhanes_iii |-> [chd |-> "HAD1", angina |-> "HAD2", mi |-> "HAD3"]]

\* a composite that takes 'no indicator is Yes' for Negative
TriStateNoUnlessYes(chd, angina, mi) ==
    IF CellEq(chd, 1) \/ CellEq(angina, 1) \/ CellEq(mi, 1) THEN <<1>> ELSE <<0>>

\* lines 179-188: NaN, then 1 where any indicator is 1, then 0 where all are 2
TriState(chd, angina, mi) ==
    LET any_yes == CellEq(chd, 1) \/ CellEq(angina, 1) \/ CellEq(mi, 1)
        all_no  == CellEq(chd, 2) /\ CellEq(angina, 2) /\ CellEq(mi, 2)
        c0 == Missing
        c1 == IF any_yes THEN <<1>> ELSE c0
    IN  IF all_no THEN <<0>> ELSE c1

\* lines 172-190.  CHD_VARS[var_type] (line 172) is a plain subscript: it
\* raises KeyError for a var_type that is no key of CHD_VARS
create_chd_composite(fr, var_type) ==
    IF var_type \notin DOMAIN CHD_VARS
    THEN [status |-> "KeyError", series |-> <<>>]
    ELSE LET v == CHD_VARS[var_type]
             chd == Col(fr, v.chd)
             angina == Col(fr, v.angina)
             mi == Col(fr, v.mi)
         IN  [status |-> "ok",
              series |-> [i \in 1..NRows(fr) |-> TriState(chd[i], angina[i], mi[i])]]

\* an estimate that is dropped only above 400
FriedewaldAbove400(tc, hdl, tg) ==
    IF IsMissing(tc) \/ IsMissing(hdl) \/ IsMissing(tg) THEN Missing
    ELSE IF tg[1] > 400 THEN Missing
    ELSE <<tc[1] - hdl[1] - (tg[1] \div 5)>>

\* lines 202-205.  Triglycerides are multiples of 5 in the inputs, so tg / 5
\* is exact.
Friedewald(tc, hdl, tg) ==
    LET ldl == IF IsMissing(tc) \/ IsMissing(hdl) \/ IsMissing(tg) THEN Missing
               ELSE <<tc[1] - hdl[1] - (tg[1] \div 5)>>
    IN  IF CellGe(tg, 400) THEN Missing ELSE ldl

calculate_ldl(fr) ==
    LET tc == Col(fr, "tchol")
        hdl == Col(fr, "hdl")
        tg == Col(fr, "trigly")
    IN  [i \in 1..NRows(fr) |-> Friedewald(tc[i], hdl[i], tg[i])]

\* the column names of the model that start with 'sbp' / 'dbp' (lines 216-217)
SbpNames == {"sbp1", "sbp2", "sbp3"}
DbpNames == {"dbp1", "dbp2", "dbp3"}

RECURSIVE SumCells(_, _)
SumCells(row, cs) ==
    IF cs = {} THEN 0
    ELSE LET c == CHOOSE x \in cs : TRUE
         IN  row[c][1] + SumCells(row, cs \ {c})

\* df[cols].mean(axis=1) >= k: the mean skips missing cells and is NaN when
\* there is none
MeanGe(row, cs, k) ==
    LET present == {c \in cs : ~IsMissing(row[c])}
    IN  present # {} /\ SumCells(row, present) >= k * Cardinality(present)

define_hypertension(fr) ==
    LET sbp_cols == fr.cols \cap SbpNames
        dbp_cols == fr.cols \cap DbpNames
        bp_med == Col(fr, "bp_med")
    IN  [i \in 1..NRows(fr) |->
            AsFloat(\/ MeanGe(fr.rows[i], sbp_cols, 130)
                    \/ MeanGe(fr.rows[i], dbp_cols, 80)
                    \/ CellEq(bp_med[i], 1))]

\* a diabetes that is unknown when no sub-condition holds and an input is
\* missing (hba1c in tenths of a percent)
DiabetesUnknownIfMissing(fr) ==
    LET inputs == {"hba1c", "glucose", "insulin_use", "oral_dm_med", "diabetes_told"}
    IN  [i \in 1..NRows(fr) |->
            IF \/ CellGe(Col(fr, "hba1c")[i], 65)
               \/ CellGe(Col(fr, "glucose")[i], 126)
               \/ CellEq(Col(fr, "insulin_use")[i], 1)
               \/ CellEq(Col(fr, "oral_dm_med")[i], 1)
               \/ CellEq(Col(fr, "diabetes_told")[i], 1)
            THEN <<1>>
            ELSE IF \E c \in inputs : IsMissing(Col(fr, c)[i]) THEN Missing ELSE <<0>>]

\* hba1c is held in tenths of a percent: 65 is 6.5 %
define_diabetes(fr) ==
    LET hba1c == Col(fr, "hba1c")
        glucose == Col(fr, "glucose")
        insulin == Col(fr, "insulin_use")
        oral_med == Col(fr, "oral_dm_med")
        diabetes_told == Col(fr, "diabetes_told")
    IN  [i \in 1..NRows(fr) |->
            AsFloat(\/ CellGe(hba1c[i], 65)
                    \/ CellGe(glucose[i], 126)
                    \/ CellEq(insulin[i], 1)
                    \/ CellEq(oral_med[i], 1)
                    \/ CellEq(diabetes_told[i], 1))]

define_hyperlipidemia(fr) ==
    LET tchol == Col(fr, "tchol")
        ldl == Col(fr, "ldl_calc")
    IN  [i \in 1..NRows(fr) |-> AsFloat(CellGe(tchol[i], 200) \/ CellGe(ldl[i], 130))]

define_obesity(fr) ==
    LET bmi == Col(fr, "bmi")
    IN  [i \in 1..NRows(fr) |-> AsFloat(CellGe(bmi[i], 30))]

\* a classification by the current answer first, whatever the lifetime answer
SmokingByCurrentAnswer(smoke_100, smoke_now) ==
    IF CellEq(smoke_now, 1) \/ CellEq(smoke_now, 2) THEN <<1>>
    ELSE IF CellEq(smoke_now, 3) THEN <<2>>
    ELSE IF CellEq(smoke_100, 2) THEN <<3>> ELSE Missing

\* lines 274-283: three assignments, in this order
SmokingStatus(smoke_100, smoke_now) ==
    LET s0 == Missing
        s1 == IF CellEq(smoke_100, 2) THEN <<3>> ELSE s0
        s2 == IF CellEq(smoke_100, 1) /\ (CellEq(smoke_now, 1) \/ CellEq(smoke_now, 2))
              THEN <<1>> ELSE s1
    IN  IF CellEq(smoke_100, 1) /\ CellEq(smoke_now, 3) THEN <<2>> ELSE s2

define_smoking_status(fr) ==
    LET smoke_100 == Col(fr, "smoke_100")
        smoke_now == Col(fr, "smoke_now")
    IN  [i \in 1..NRows(fr) |-> SmokingStatus(smoke_100[i], smoke_now[i])]

(* The frames the derived-variable functions are applied to: one record,   *)
(* any subset of the columns one function reads, any value of each.        *)

YesNoCells == {Missing, <<1>>, <<2>>, <<9>>}

CellValues(c) ==
    CASE c \in {"MCQ160C", "MCQ160D", "MCQ160E"} -> YesNoCells
      [] c \in {"HAD1", "HAD2", "HAD3"} -> YesNoCells
      [] c = "tchol" -> {Missing, <<190>>, <<200>>, <<220>>}
      [] c = "hdl" -> {Missing, <<30>>, <<50>>}
      [] c = "trigly" -> {Missing, <<150>>, <<400>>, <<450>>}
      [] c \in {"sbp1", "sbp2"} -> {Missing, <<120>>, <<140>>}
      [] c = "dbp1" -> {Missing, <<70>>, <<80>>}
      [] c \in {"bp_med", "insulin_use", "oral_dm_med", "diabetes_told"} ->
            {Missing, <<1>>, <<2>>}
      [] c = "hba1c" -> {Missing, <<64>>, <<65>>}
      [] c = "glucose" -> {Missing, <<125>>, <<126>>}
      [] c = "bmi" -> {Missing, <<29>>, <<30>>}
      [] c = "smoke_100" -> YesNoCells
      [] c = "smoke_now" -> {Missing, <<1>>, <<2>>, <<3>>, <<9>>}
      [] c = "DMARETHN" -> {Missing, <<1>>, <<2>>, <<3>>, <<4>>, <<5>>}
      [] c = "SEQN" -> {<<1>>}
      [] c = "HSSEX" -> {<<2>>}
      [] c = "HSAGEIR" -> {<<45>>}
      [] c = "DMPPIR" -> {<<2>>}
      [] c = "SDPSTRA6" -> {<<1>>}
      [] c = "SDPPSU6" -> {<<1>>}
      [] c = "WTPFEX6" -> {<<1000>>}
      [] c = "HAR1" -> {<<2>>}
      [] c = "HAR3" -> {Missing}

RECURSIVE RowsOver(_)
RowsOver(cs) ==
    IF cs = {} THEN {<<>>}
    ELSE LET c == CHOOSE x \in cs : TRUE
         IN  {[x \in cs |-> IF x = c THEN v ELSE r[x]] :
                 r \in RowsOver(cs \ {c}), v \in CellValues(c)}

OneRowFrames(family) ==
    UNION {{[cols |-> cs, rows |-> <<r>>] : r \in RowsOver(cs)} : cs \in SUBSET family}

ChdCols == {"MCQ160C", "MCQ160D", "MCQ160E"}
LipidCols == {"tchol", "hdl", "trigly"}
BpCols == {"sbp1", "sbp2", "dbp1", "bp_med"}
DmCols == {"hba1c", "glucose", "insulin_use", "oral_dm_med", "diabetes_told"}
BmiCols == {"bmi"}
SmokeCols == {"smoke_100", "smoke_now"}

DeriveInputs ==
    OneRowFrames(ChdCols) \cup OneRowFrames(LipidCols) \cup OneRowFrames(BpCols)
    \cup OneRowFrames(DmCols) \cup OneRowFrames(BmiCols) \cup OneRowFrames(SmokeCols)

(* main, lines 343-350: the derived variables, in this order.              *)

DeriveChd ==
    /\ pcMain = "chd_composite"
    /\ combined' = SetCol(combined, "chd_composite",
                          create_chd_composite(combined, "continuous").series)
    /\ pcMain' = "ldl_calc"

\* a run that goes on without adding ldl_calc
DeriveLdlSkipped ==
    /\ pcMain = "ldl_calc"
    /\ combined' = combined
    /\ pcMain' = "hypertension"

DeriveLdl ==
    /\ pcMain = "ldl_calc"
    /\ combined' = SetCol(combined, "ldl_calc", calculate_ldl(combined))
    /\ pcMain' = "hypertension"

DeriveHypertension ==
    /\ pcMain = "hypertension"
    /\ combined' = SetCol(combined, "hypertension", define_hypertension(combined))
    /\ pcMain' = "diabetes"

DeriveDiabetes ==
    /\ pcMain = "diabetes"
    /\ combined' = SetCol(combined, "diabetes", define_diabetes(combined))
    /\ pcMain' = "hyperlipidemia"

DeriveHyperlipidemia ==
    /\ pcMain = "hyperlipidemia"
    /\ combined' = SetCol(combined, "hyperlipidemia", define_hyperlipidemia(combined))
    /\ pcMain' = "obesity"

DeriveObesity ==
    /\ pcMain = "obesity"
    /\ combined' = SetCol(combined, "obesity", define_obesity(combined))
    /\ pcMain' = "smoking_status"

DeriveSmoking ==
    /\ pcMain = "smoking_status"
    /\ combined' = SetCol(combined, "smoking_status", define_smoking_status(combined))
    /\ pcMain' = "save"

\* a call of create_chd_composite(df, var_type) by a user of the module: the
\* era-type names of the registry ("continuous", "nhanes_iii") and the name the
\* design gives the second one ("legacy")
VarTypes == {"continuous", "nhanes_iii", "legacy"}

CreateChdComposite ==
    /\ pcChd = "called"
    /\ composite' = create_chd_composite(combined, arg_var_type)
    /\ pcChd' = "returned"
    /\ UNCHANGED <<arg_var_type, combined, pcMain>>

Derive ==
    \/ DeriveChd
    \/ DeriveLdl
    \/ DeriveHypertension
    \/ DeriveDiabetes
    \/ DeriveHyperlipidemia
    \/ DeriveObesity
    \/ DeriveSmoking

----------------------------------------------------------------------------
(* 06_nhanes_iii_harmonize.py: harmonize_nhanes_iii.                       *)

\* the columns read_nhanes_iii_adult gives every frame (NHANES_III_ADULT_VARS)
AdultCols ==
    {"SEQN", "DMARETHN", "HSSEX", "HSAGEIR", "DMPPIR", "SDPSTRA6", "SDPPSU6",
     "WTPFEX6", "HAD1", "HAD2", "HAD3", "HAR1", "HAR3"}

\* lines 55-64
LegacyRename(c) ==
    CASE c = "HSAGEIR" -> "RIDAGEYR"
      [] c = "HSSEX" -> "RIAGENDR"
      [] c = "DMARETHN" -> "RIDRETH1"
      [] c = "DMPPIR" -> "INDFMPIR"
      [] c = "WTPFEX6" -> "WTMEC2YR"
      [] c = "SDPSTRA6" -> "SDMVSTRA"
      [] c = "SDPPSU6" -> "SDMVPSU"
      [] OTHER -> c

\* df.rename(columns={...})
RenameLegacy(fr) ==
    LET newCols == {LegacyRename(c) : c \in fr.cols}
        old(n) == CHOOSE c \in fr.cols : LegacyRename(c) = n
    IN  [cols |-> newCols,
         rows |-> [i \in 1..NRows(fr) |-> [n \in newCols |-> fr.rows[i][old(n)]]]]

\* a recode that leaves a value that is no key as it is
RaceRecodePassThrough(c) ==
    CASE CellEq(c, 1) -> <<3>>
      [] CellEq(c, 2) -> <<4>>
      [] CellEq(c, 3) -> <<1>>
      [] CellEq(c, 4) -> <<5>>
      [] OTHER -> c

\* line 69-70: Series.map(dict) gives NaN for a value that is no key
race_recode(c) ==
    CASE CellEq(c, 1) -> <<3>>
      [] CellEq(c, 2) -> <<4>>
      [] CellEq(c, 3) -> <<1>>
      [] CellEq(c, 4) -> <<5>>
      [] OTHER -> Missing

\* lines 75-79: NaN, then 1 where any_yes, then 0 where all_no
LegacyTriState(had1, had2, had3) ==
    LET any_yes == CellEq(had1, 1) \/ CellEq(had2, 1) \/ CellEq(had3, 1)
        all_no  == CellEq(had1, 2) /\ CellEq(had2, 2) /\ CellEq(had3, 2)
        c0 == Missing
        c1 == IF any_yes THEN <<1>> ELSE c0
    IN  IF all_no THEN <<0>> ELSE c1

harmonize_nhanes_iii(fr) ==
    LET d1 == RenameLegacy(fr)
        d2 == SetCol(d1, "RIDRETH1",
                     [i \in 1..NRows(d1) |-> race_recode(d1.rows[i]["RIDRETH1"])])
        d3 == SetCol(d2, "chd_composite",
                     [i \in 1..NRows(d2) |->
                         LegacyTriState(d2.rows[i]["HAD1"], d2.rows[i]["HAD2"],
                                        d2.rows[i]["HAD3"])])
        d4 == SetCol(d3, "era", [i \in 1..NRows(d3) |-> <<"Era1_1988-1994">>])
    IN  SetCol(d4, "cycle", [i \in 1..NRows(d4) |-> <<"1988-1994">>])

AdultInputs == {[cols |-> AdultCols, rows |-> <<r>>] : r \in RowsOver(AdultCols)}

HarmonizeNhanesIII ==
    /\ pcLegacy = "input"
    /\ adult' = harmonize_nhanes_iii(adult)
    /\ pcLegacy' = "harmonized"

InitDerive ==
    /\ \/ /\ combined \in DeriveInputs
          /\ pcMain = "chd_composite"
          /\ adult = EmptyFrame
          /\ pcLegacy = "idle"
          /\ arg_var_type = ""
          /\ pcChd = "idle"
       \/ /\ combined = EmptyFrame
          /\ pcMain = "idle"
          /\ adult \in AdultInputs
          /\ pcLegacy = "input"
          /\ arg_var_type = ""
          /\ pcChd = "idle"
       \/ /\ combined \in OneRowFrames(ChdCols)
          /\ pcMain = "idle"
          /\ adult = EmptyFrame
          /\ pcLegacy = "idle"
          /\ arg_var_type \in VarTypes
          /\ pcChd = "called"
    /\ composite = [status |-> "none", series |-> <<>>]
    /\ prevalence_by_age = <<>>
    /\ total_weight = 0
    /\ standardized = NaN
    /\ age_std_prev = NaN
    /\ pcAge = "idle"
    /\ df = <<>>
    /\ result = [n |-> -1]
    /\ pcEst = "idle"
    /\ cycle = ""
    /\ cycle_dir = [demo |-> <<>>, comp |-> <<>>]
    /\ slice = [status |-> "none", df |-> [cols |-> {}, rows |-> <<>>]]
    /\ pcCycle = "idle"
    /\ data_raw = <<>>
    /\ cycle_idx = 0
    /\ all_data = <<>>
    /\ analytic = <<>>
    /\ table2 = [status |-> "none", rows |-> <<>>]
    /\ pcAn = "idle"
    /\ age_arg = <<>>
    /\ group_cell = <<>>
    /\ pcGroup = "idle"
    /\ loaded = [cols |-> {}, rows |-> <<>>]
    /\ table1 = [status |-> "none", rows |-> <<>>]
    /\ age_prevs = <<>>
    /\ table3 = [status |-> "none", rows |-> <<>>]
    /\ table4 = [status |-> "none", rows |-> <<>>]
    /\ pcRun = "idle"

NextDerive ==
    \/ Derive
       /\ UNCHANGED <<ageVars, estVars, legacyVars, cycleVars, mainVars, chdVars, anVars,
                 groupVars, runVars>>
    \/ HarmonizeNhanesIII
       /\ UNCHANGED <<ageVars, estVars, deriveVars, cycleVars, mainVars, chdVars, anVars,
                 groupVars, runVars>>
    \/ CreateChdComposite
       /\ UNCHANGED <<ageVars, estVars, legacyVars, cycleVars, mainVars, anVars,
                 groupVars, runVars>>

----------------------------------------------------------------------------
(* 02_harmonize_variables.py: the crosswalk tables, load_xpt and           *)
(* process_cycle.                                                          *)

ERA_MAPPING ==
    [c \in {"1988-1994", "1999-2000", "2001-2002", "2003-2004", "2005-2006",
            "2007-2008", "2009-2010", "2011-2012", "2013-2014", "2015-2016",
            "2017-2020", "2021-2023"} |->
        CASE c = "1988-1994" -> "Era1_1988-1994"
          [] c \in {"1999-2000", "2001-2002", "2003-2004", "2005-2006"} -> "Era2_1999-2006"
          [] c \in {"2007-2008", "2009-2010", "2011-2012", "2013-2014"} -> "Era3_2007-2014"
          [] c \in {"2015-2016", "2017-2020"} -> "Era4a_2015-2020"
          [] c = "2021-2023" -> "Era4b_2021-2023"]

\* the "continuous" tables: canonical name |-> source column
DEMO_VARS ==
    [id |-> "SEQN", age |-> "RIDAGEYR", sex |-> "RIAGENDR", race_eth |-> "RIDRETH1",
     race_eth3 |-> "RIDRETH3", education |-> "DMDEDUC2", pir |-> "INDFMPIR",
     weight_interview |-> "WTINT2YR", weight_exam |-> "WTMEC2YR",
     psu |-> "SDMVPSU", strata |-> "SDMVSTRA"]

RISK_FACTOR_VARS ==
    [sbp1 |-> "BPXSY1", sbp2 |-> "BPXSY2", sbp3 |-> "BPXSY3",
     dbp1 |-> "BPXDI1", dbp2 |-> "BPXDI2", dbp3 |-> "BPXDI3",
     bp_med |-> "BPQ040A",
     diabetes_told |-> "DIQ010", insulin_use |-> "DIQ050", oral_dm_med |-> "DIQ070",
     hba1c |-> "LBXGH", glucose |-> "LBXGLU", tchol |-> "LBXTC", hdl |-> "LBDHDD",
     trigly |-> "LBXTR",
     bmi |-> "BMXBMI", weight |-> "BMXWT", height |-> "BMXHT",
     smoke_100 |-> "SMQ020", smoke_now |-> "SMQ040"]

\* line 304
Components ==
    <<"MCQ", "BPQ", "DIQ", "SMQ", "PAQ", "BMX", "BPX", "GHB", "GLU", "TCHOL",
      "HDL", "TRIGLY">>

\* a file of the cycle directory: load_xpt reads its table, or fails
Unreadable == [ok |-> FALSE, table |-> EmptyFrame]
Readable(t) == [ok |-> TRUE, table |-> t]

\* lines 159-165: an empty DataFrame when read_sas raises
load_xpt(file) == IF file.ok THEN file.table ELSE EmptyFrame

\* a merge that gives the right column the name it has
RightNameNoSuffix(left, right, component, c) == c

\* df.merge(comp_df, on='SEQN', how='left', suffixes=('', '_' + component)):
\* every row of the left frame, once per right row with its SEQN, or once
\* with the right columns missing; a right column whose name the left frame
\* has takes the suffix
RightName(left, right, component, c) ==
    IF c \in left.cols THEN c \o "_" \o component ELSE c

\* the row of the merged frame for left row l and right row r (<<>>: no match)
JoinedRow(left, right, component, l, r) ==
    LET rcols == right.cols \ {"SEQN"}
        newCols == left.cols \cup {RightName(left, right, component, c) : c \in rcols}
        old(n) == CHOOSE c \in rcols : RightName(left, right, component, c) = n
    IN  [n \in newCols |->
            IF n \in left.cols THEN l[n]
            ELSE IF r = <<>> THEN Missing ELSE r[old(n)]]

RECURSIVE MergeRows(_, _, _, _)
MergeRows(left, right, component, lrows) ==
    IF lrows = <<>> THEN <<>>
    ELSE LET l == Head(lrows)
             match == SelectSeq(right.rows, LAMBDA r : r["SEQN"] = l["SEQN"])
             out == IF match = <<>> THEN <<JoinedRow(left, right, component, l, <<>>)>>
                    ELSE [j \in 1..Len(match) |->
                             JoinedRow(left, right, component, l, match[j])]
         IN  out \o MergeRows(left, right, component, Tail(lrows))

\* an inner join: a left row with no right row of its SEQN is dropped
MergeInner(left, right, component) ==
    LET matched == SelectSeq(left.rows,
                             LAMBDA l : \E j \in 1..NRows(right) :
                                           right.rows[j]["SEQN"] = l["SEQN"])
    IN  [cols |-> left.cols \cup
                  {RightName(left, right, component, c) : c \in right.cols \ {"SEQN"}},
         rows |-> MergeRows(left, right, component, matched)]

Merge(left, right, component) ==
    [cols |-> left.cols \cup
              {RightName(left, right, component, c) : c \in right.cols \ {"SEQN"}},
     rows |-> MergeRows(left, right, component, left.rows)]

Returned(fr) == [status |-> "ok", df |-> fr]
Raised(e) == [status |-> e, df |-> EmptyFrame]

\* lines 303-309, from the i-th component on; merge raises KeyError when the
\* left frame has no SEQN column
RECURSIVE MergeLoop(_, _, _)
MergeLoop(fr, dir, i) ==
    IF i > Len(Components) THEN Returned(fr)
    ELSE LET component == Components[i]
             files == dir.comp[component]
         IN  IF files # <<>>
             THEN LET comp_df == load_xpt(files[1])
                  IN  IF "SEQN" \in comp_df.cols /\ NRows(comp_df) > 0
                      THEN IF "SEQN" \in fr.cols
                           THEN MergeLoop(Merge(fr, comp_df, component), dir, i + 1)
                           ELSE Raised("KeyError")
                      ELSE MergeLoop(fr, dir, i + 1)
             ELSE MergeLoop(fr, dir, i + 1)

\* tags where a cycle that ERA_MAPPING does not know gets no era
TagKnownErasOnly(fr, cyc) ==
    LET d1 == SetCol(fr, "cycle", [i \in 1..NRows(fr) |-> <<cyc>>])
    IN  SetCol(d1, "era",
               [i \in 1..NRows(d1) |->
                   IF cyc \in DOMAIN ERA_MAPPING THEN <<ERA_MAPPING[cyc]>> ELSE Missing])

\* lines 311-313
Tag(fr, cyc) ==
    LET d1 == SetCol(fr, "cycle", [i \in 1..NRows(fr) |-> <<cyc>>])
        era == IF cyc \in DOMAIN ERA_MAPPING THEN ERA_MAPPING[cyc] ELSE "Unknown"
    IN  SetCol(d1, "era", [i \in 1..NRows(d1) |-> <<era>>])

process_cycle(cyc, dir) ==
    LET demo_file == dir.demo
    IN  IF demo_file = <<>> THEN Returned(EmptyFrame)
        ELSE LET merged == MergeLoop(load_xpt(demo_file[1]), dir, 1)
             IN  IF merged.status = "ok" THEN Returned(Tag(merged.df, cyc)) ELSE merged

(* The cycle directories of the model: a demographic file and the files of *)
(* three components, each absent, unreadable or holding a table.           *)

TableCols(component) ==
    CASE component = "DEMO" -> {"SEQN", "RIDAGEYR", "WTMEC2YR"}
      [] component = "BMX" -> {"SEQN", "BMXBMI"}
      [] component = "GLU" -> {"SEQN", "LBXGLU", "WTSAF2YR"}
      [] component = "TRIGLY" -> {"SEQN", "LBXTR", "WTSAF2YR"}

\* the cell of subject seqn in a column of a component's table
TableCell(component, c, seqn) ==
    CASE c = "SEQN" -> <<seqn>>
      [] c = "RIDAGEYR" -> <<20 + 10 * seqn>>
      [] c = "WTMEC2YR" -> <<1000 * seqn>>
      [] c = "BMXBMI" -> <<28 + seqn>>
      [] c = "LBXGLU" -> <<124 + seqn>>
      [] c = "LBXTR" -> <<150 * seqn>>
      [] c = "WTSAF2YR" -> IF component = "GLU" THEN <<2000 + seqn>> ELSE <<3000 + seqn>>

Table(component, seqns) ==
    [cols |-> TableCols(component),
     rows |-> [i \in 1..Len(seqns) |->
                 [c \in TableCols(component) |-> TableCell(component, c, seqns[i])]]]

DemoFiles ==
    {<<>>, <<Unreadable>>} \cup
    {<<Readable(Table("DEMO", q))>> : q \in {<<>>, <<1>>, <<1, 2>>}}

ComponentFiles(component) ==
    {<<>>, <<Unreadable>>} \cup
    {<<Readable(Table(component, q))>> : q \in {<<>>, <<1>>, <<1, 3>>}}

ModelledComponents == {"BMX", "GLU", "TRIGLY"}

CycleDirs ==
    {[demo |-> d,
      comp |-> [c \in {Components[i] : i \in 1..Len(Components)} |->
                  CASE c = "BMX" -> b [] c = "GLU" -> g [] c = "TRIGLY" -> t
                    [] OTHER -> <<>>]] :
        d \in DemoFiles, b \in ComponentFiles("BMX"), g \in ComponentFiles("GLU"),
        t \in ComponentFiles("TRIGLY")}

\* a cycle of main's list and one that ERA_MAPPING does not know
CycleIds == {"2001-2002", "1997-1998"}

InitCycle ==
    /\ cycle \in CycleIds
    /\ cycle_dir \in CycleDirs
    /\ slice = [status |-> "none", df |-> EmptyFrame]
    /\ pcCycle = "called"
    /\ prevalence_by_age = <<>>
    /\ total_weight = 0
    /\ standardized = NaN
    /\ age_std_prev = NaN
    /\ pcAge = "idle"
    /\ df = <<>>
    /\ result = [n |-> -1]
    /\ pcEst = "idle"
    /\ combined = EmptyFrame
    /\ pcMain = "idle"
    /\ adult = EmptyFrame
    /\ pcLegacy = "idle"
    /\ data_raw = <<>>
    /\ cycle_idx = 0
    /\ all_data = <<>>
    /\ arg_var_type = ""
    /\ composite = [status |-> "none", series |-> <<>>]
    /\ pcChd = "idle"
    /\ analytic = <<>>
    /\ table2 = [status |-> "none", rows |-> <<>>]
    /\ pcAn = "idle"
    /\ age_arg = <<>>
    /\ group_cell = <<>>
    /\ pcGroup = "idle"
    /\ loaded = [cols |-> {}, rows |-> <<>>]
    /\ table1 = [status |-> "none", rows |-> <<>>]
    /\ age_prevs = <<>>
    /\ table3 = [status |-> "none", rows |-> <<>>]
    /\ table4 = [status |-> "none", rows |-> <<>>]
    /\ pcRun = "idle"

ProcessCycle ==
    /\ pcCycle = "called"
    /\ slice' = process_cycle(cycle, cycle_dir)
    /\ pcCycle' = "returned"
    /\ UNCHANGED <<cycle, cycle_dir>>

NextCycle ==
    ProcessCycle
    /\ UNCHANGED <<ageVars, estVars, deriveVars, legacyVars, mainVars, chdVars, anVars,
                 groupVars, runVars>>

----------------------------------------------------------------------------
(* 02_harmonize_variables.py: main, the loop over the cycles and the       *)
(* concatenation.  The derived variables (Derive) follow.                  *)

\* lines 327-329
Cycles ==
    <<"1999-2000", "2001-2002", "2003-2004", "2005-2006", "2007-2008", "2009-2010",
      "2011-2012", "2013-2014", "2015-2016", "2017-2020", "2021-2023">>

\* only the first NDirs cycles of the list may have a directory under DATA_RAW
NDirs == 3

\* pd.concat(all_data, ignore_index=True): the rows of the frames in list
\* order over the union of their columns, a column a frame lacks being NaN
ConcatCols(frames) == UNION {frames[k].cols : k \in 1..Len(frames)}

RECURSIVE ConcatRows(_, _)
ConcatRows(frames, cols) ==
    IF frames = <<>> THEN <<>>
    ELSE LET f == Head(frames)
         IN  [i \in 1..NRows(f) |->
                 [c \in cols |-> IF c \in f.cols THEN f.rows[i][c] ELSE Missing]]
             \o ConcatRows(Tail(frames), cols)

Concat(frames) ==
    [cols |-> ConcatCols(frames), rows |-> ConcatRows(frames, ConcatCols(frames))]

\* the directories DATA_RAW / cycle of the model: a DEMO file that is absent,
\* unreadable or holds a table, and a BMX file that is absent or holds a table
MainDirs ==
    {d \in CycleDirs :
        /\ d.demo \in {<<>>, <<Unreadable>>, <<Readable(Table("DEMO", <<1>>))>>,
                       <<Readable(Table("DEMO", <<1, 2>>))>>}
        /\ d.comp["BMX"] \in {<<>>, <<Readable(Table("BMX", <<1>>))>>}
        /\ d.comp["GLU"] = <<>>
        /\ d.comp["TRIGLY"] = <<>>}

\* DATA_RAW: <<>> where cycle_dir.exists() is false, <<dir>> otherwise
DataRaws ==
    {[i \in 1..Len(Cycles) |-> IF i <= NDirs THEN q[i] ELSE <<>>] :
        q \in [1..NDirs -> {<<>>} \cup {<<d>> : d \in MainDirs}]}

InitMain ==
    /\ data_raw \in DataRaws
    /\ cycle_idx = 0
    /\ all_data = <<>>
    /\ combined = EmptyFrame
    /\ pcMain = "loop"
    /\ prevalence_by_age = <<>>
    /\ total_weight = 0
    /\ standardized = NaN
    /\ age_std_prev = NaN
    /\ pcAge = "idle"
    /\ df = <<>>
    /\ result = [n |-> -1]
    /\ pcEst = "idle"
    /\ adult = EmptyFrame
    /\ pcLegacy = "idle"
    /\ cycle = ""
    /\ cycle_dir = [demo |-> <<>>, comp |-> <<>>]
    /\ slice = [status |-> "none", df |-> EmptyFrame]
    /\ pcCycle = "idle"
    /\ arg_var_type = ""
    /\ composite = [status |-> "none", series |-> <<>>]
    /\ pcChd = "idle"
    /\ analytic = <<>>
    /\ table2 = [status |-> "none", rows |-> <<>>]
    /\ pcAn = "idle"
    /\ age_arg = <<>>
    /\ group_cell = <<>>
    /\ pcGroup = "idle"
    /\ loaded = [cols |-> {}, rows |-> <<>>]
    /\ table1 = [status |-> "none", rows |-> <<>>]
    /\ age_prevs = <<>>
    /\ table3 = [status |-> "none", rows |-> <<>>]
    /\ table4 = [status |-> "none", rows |-> <<>>]
    /\ pcRun = "idle"

\* lines 331-336: one iteration of the loop.  main has no try / except: an
\* exception of process_cycle ends the run
MainLoop ==
    /\ pcMain = "loop"
    /\ cycle_idx < Len(Cycles)
    /\ LET d == data_raw[cycle_idx + 1]
           r == IF d = <<>> THEN Returned(EmptyFrame)
                ELSE process_cycle(Cycles[cycle_idx + 1], d[1])
       IN  IF r.status = "ok"
           THEN /\ all_data' = IF NRows(r.df) > 0 THEN Append(all_data, r.df)
                                ELSE all_data
                /\ pcMain' = "loop"
           ELSE /\ all_data' = all_data
                /\ pcMain' = r.status
    /\ cycle_idx' = cycle_idx + 1
    /\ UNCHANGED <<data_raw, combined>>

\* lines 339-340
MainCombine ==
    /\ pcMain = "loop"
    /\ cycle_idx = Len(Cycles)
    /\ IF all_data # <<>>
       THEN /\ combined' = Concat(all_data)
            /\ pcMain' = "chd_composite"
       ELSE /\ combined' = combined
            /\ pcMain' = "done"
    /\ UNCHANGED <<data_raw, cycle_idx, all_data>>

NextMain ==
    \/ MainLoop
       /\ UNCHANGED <<ageVars, estVars, legacyVars, cycleVars, chdVars, anVars,
                 groupVars, runVars>>
    \/ MainCombine
       /\ UNCHANGED <<ageVars, estVars, legacyVars, cycleVars, chdVars, anVars,
                 groupVars, runVars>>
    \/ Derive
       /\ UNCHANGED <<ageVars, estVars, legacyVars, cycleVars, mainVars, chdVars, anVars,
                 groupVars, runVars>>

----------------------------------------------------------------------------
(* 03_statistical_analysis.py: create_age_groups.                          *)

\* lines 28-29
AgeBins == <<20, 30, 40, 50, 60, 70, 80, 120>>
GroupLabels == <<"20-29", "30-39", "40-49", "50-59", "60-69", "70-79", "80+">>

\* intervals closed on the right: (20, 30], (30, 40], ...
AgeGroupsRightClosed(age) ==
    IF IsMissing(age) THEN Missing
    ELSE LET hits == {i \in 1..Len(GroupLabels) :
                         AgeBins[i] < age[1] /\ age[1] <= AgeBins[i + 1]}
         IN  IF hits = {} THEN Missing ELSE <<GroupLabels[CHOOSE i \in hits : TRUE]>>

\* line 30, for one cell of the series: pd.cut(..., right=False) gives the
\* label of the interval [bins[i], bins[i + 1]) that holds the age, and NaN
\* for an age in no interval or a NaN age
create_age_groups(age) ==
    IF IsMissing(age) THEN Missing
    ELSE LET hits == {i \in 1..Len(GroupLabels) :
                         AgeBins[i] <= age[1] /\ age[1] < AgeBins[i + 1]}
         IN  IF hits = {} THEN Missing ELSE <<GroupLabels[CHOOSE i \in hits : TRUE]>>

\* the ages given to create_age_groups: missing, or 0 .. MaxAge years
MaxAge == 125

AgeCells == {Missing} \cup {<<a>> : a \in 0..MaxAge}

InitGroups ==
    /\ age_arg \in AgeCells
    /\ group_cell = <<>>
    /\ pcGroup = "called"
    /\ prevalence_by_age = <<>>
    /\ total_weight = 0
    /\ standardized = NaN
    /\ age_std_prev = NaN
    /\ pcAge = "idle"
    /\ df = <<>>
    /\ result = [n |-> -1]
    /\ pcEst = "idle"
    /\ combined = EmptyFrame
    /\ pcMain = "idle"
    /\ adult = EmptyFrame
    /\ pcLegacy = "idle"
    /\ cycle = ""
    /\ cycle_dir = [demo |-> <<>>, comp |-> <<>>]
    /\ slice = [status |-> "none", df |-> EmptyFrame]
    /\ pcCycle = "idle"
    /\ data_raw = <<>>
    /\ cycle_idx = 0
    /\ all_data = <<>>
    /\ arg_var_type = ""
    /\ composite = [status |-> "none", series |-> <<>>]
    /\ pcChd = "idle"
    /\ analytic = <<>>
    /\ table2 = [status |-> "none", rows |-> <<>>]
    /\ pcAn = "idle"
    /\ loaded = EmptyFrame
    /\ table1 = [status |-> "none", rows |-> <<>>]
    /\ age_prevs = <<>>
    /\ table3 = [status |-> "none", rows |-> <<>>]
    /\ table4 = [status |-> "none", rows |-> <<>>]
    /\ pcRun = "idle"

CreateAgeGroups ==
    /\ pcGroup = "called"
    /\ group_cell' = create_age_groups(age_arg)
    /\ pcGroup' = "returned"
    /\ UNCHANGED age_arg

NextGroups ==
    CreateAgeGroups
    /\ UNCHANGED <<ageVars, estVars, deriveVars, legacyVars, cycleVars, mainVars, chdVars,
                 anVars, runVars>>

----------------------------------------------------------------------------
(* 03_statistical_analysis.py: analyze_risk_factors_by_era.                *)

\* line 135
RiskFactors == <<"hypertension", "diabetes", "hyperlipidemia", "obesity">>

\* the era labels of the model, in sorted order (line 137)
Eras == <<"Era2_1999-2006", "Era3_2007-2014">>

\* sorted(df['era'].unique())
ErasOf(fr) ==
    SelectSeq(Eras, LAMBDA e : \E i \in 1..NRows(fr) : fr.rows[i]["era"] = <<e>>)

\* df[[outcome, 'WTMEC2YR']]: what the estimator reads of a frame
EstInput(fr, outcome) ==
    [i \in 1..NRows(fr) |->
        [outcome |-> fr.rows[i][outcome], weight |-> fr.rows[i]["WTMEC2YR"]]]

\* lines 142-146, from the k-th risk factor on: prev['n_cases'] (line 146)
\* raises KeyError when the result has no such key
RECURSIVE RiskFactorRow(_, _, _)
RiskFactorRow(era_df, row, k) ==
    IF k > Len(RiskFactors) THEN [status |-> "ok", row |-> row]
    ELSE LET rf == RiskFactors[k]
         IN  IF rf \in era_df.cols
             THEN LET prev == calculate_survey_weighted_prevalence(EstInput(era_df, rf))
                  IN  IF "n_cases" \notin DOMAIN prev
                      THEN [status |-> "KeyError", row |-> row]
                      ELSE RiskFactorRow(era_df,
                                         row @@ ((rf \o "_prev") :> prev.prevalence)
                                             @@ ((rf \o "_n") :> prev.n_cases),
                                         k + 1)
             ELSE RiskFactorRow(era_df, row, k + 1)

\* lines 137-148 over the eras that are left
RECURSIVE RiskFactorRows(_, _)
RiskFactorRows(fr, eras) ==
    IF eras = <<>> THEN [status |-> "ok", rows |-> <<>>]
    ELSE LET era == Head(eras)
             era_df == [cols |-> fr.cols,
                        rows |-> SelectSeq(fr.rows,
                                           LAMBDA r : /\ r["era"] = <<era>>
                                                      /\ r["chd_composite"] = <<1>>)]
             row == RiskFactorRow(era_df, [era |-> era, n_chd |-> NRows(era_df)], 1)
         IN  IF row.status # "ok" THEN [status |-> row.status, rows |-> <<>>]
             ELSE LET rest == RiskFactorRows(fr, Tail(eras))
                  IN  IF rest.status # "ok" THEN rest
                      ELSE [status |-> "ok", rows |-> <<row.row>> \o rest.rows]

analyze_risk_factors_by_era(fr) == RiskFactorRows(fr, ErasOf(fr))

(* The frames handed to the analyzer: main has applied its exclusions      *)
(* (lines 203-211), so chd_composite is 0 or 1 and WTMEC2YR is positive;   *)
(* a risk-factor column is 0.0 or 1.0 wherever it exists.                  *)

\* the frame has at most MaxRows rows
MaxRows == 2

AnalyticCell(c) ==
    CASE c = "era" -> {<<Eras[i]>> : i \in 1..Len(Eras)}
      [] c = "chd_composite" -> {<<0>>, <<1>>}
      [] c = "WTMEC2YR" -> {<<1>>, <<2>>}
      [] OTHER -> {<<0>>, <<1>>}

RECURSIVE AnalyticRows(_)
AnalyticRows(cs) ==
    IF cs = {} THEN {<<>>}
    ELSE LET c == CHOOSE x \in cs : TRUE
         IN  {[x \in cs |-> IF x = c THEN v ELSE r[x]] :
                 r \in AnalyticRows(cs \ {c}), v \in AnalyticCell(c)}

AnalyticFrames ==
    UNION {{[cols |-> cs, rows |-> rows] : rows \in SeqsUpTo(AnalyticRows(cs), MaxRows)} :
              cs \in {{"era", "chd_composite", "WTMEC2YR"} \cup x :
                         x \in SUBSET {"hypertension"}}}

InitAnalyze ==
    /\ analytic \in AnalyticFrames
    /\ table2 = [status |-> "none", rows |-> <<>>]
    /\ pcAn = "called"
    /\ prevalence_by_age = <<>>
    /\ total_weight = 0
    /\ standardized = NaN
    /\ age_std_prev = NaN
    /\ pcAge = "idle"
    /\ df = <<>>
    /\ result = [n |-> -1]
    /\ pcEst = "idle"
    /\ combined = EmptyFrame
    /\ pcMain = "idle"
    /\ adult = EmptyFrame
    /\ pcLegacy = "idle"
    /\ cycle = ""
    /\ cycle_dir = [demo |-> <<>>, comp |-> <<>>]
    /\ slice = [status |-> "none", df |-> EmptyFrame]
    /\ pcCycle = "idle"
    /\ data_raw = <<>>
    /\ cycle_idx = 0
    /\ all_data = <<>>
    /\ arg_var_type = ""
    /\ composite = [status |-> "none", series |-> <<>>]
    /\ pcChd = "idle"
    /\ age_arg = <<>>
    /\ group_cell = <<>>
    /\ pcGroup = "idle"
    /\ loaded = [cols |-> {}, rows |-> <<>>]
    /\ table1 = [status |-> "none", rows |-> <<>>]
    /\ age_prevs = <<>>
    /\ table3 = [status |-> "none", rows |-> <<>>]
    /\ table4 = [status |-> "none", rows |-> <<>>]
    /\ pcRun = "idle"

\* main, line 231
AnalyzeRiskFactors ==
    /\ pcAn = "called"
    /\ table2' = analyze_risk_factors_by_era(analytic)
    /\ pcAn' = "returned"
    /\ UNCHANGED analytic

NextAnalyze ==
    AnalyzeRiskFactors
    /\ UNCHANGED <<ageVars, estVars, deriveVars, legacyVars, cycleVars, mainVars, chdVars,
                 groupVars, runVars>>

----------------------------------------------------------------------------
(* 03_statistical_analysis.py: analyze_prevalence_by_era,                  *)
(* analyze_by_subgroup and the run of main.                                *)

\* the cell counts are compared with these sample sizes (line 111, line 165)
MinAgeGroupN == 30
MinSubgroupN == 50

\* the label tables of the subgroup analyses, in the order of the dictionaries
\* line 239
sex_labels == <<[value |-> 1, label |-> "Male"], [value |-> 2, label |-> "Female"]>>

\* lines 248-254
race_labels ==
    <<[value |-> 1, label |-> "Mexican American"],
      [value |-> 2, label |-> "Other Hispanic"],
      [value |-> 3, label |-> "Non-Hispanic White"],
      [value |-> 4, label |-> "Non-Hispanic Black"],
      [value |-> 5, label |-> "Other/Multi-racial"]>>

\* age_standardize (lines 75-93) on prevalences that are any exact fraction
RECURSIVE StdLoopExact(_, _)
StdLoopExact(pba, i) ==
    IF i = 0 THEN <<Rat(0, 1), 0>>
    ELSE LET acc == StdLoopExact(pba, i - 1)
             bucket == AgeLabels[i]
         IN  IF bucket \in DOMAIN pba
             THEN <<IF IsFin(pba[bucket])
                    THEN RatAdd(acc[1], RatMul(pba[bucket],
                                               Rat(US_STD_2000[bucket], WScale)))
                    ELSE NaN,
                    acc[2] + US_STD_2000[bucket]>>
             ELSE acc

age_standardize_exact(pba) ==
    LET acc == StdLoopExact(pba, Len(AgeLabels))
        tw == acc[2]
    IN  IF tw > 0 /\ tw < WScale THEN RatDiv(acc[1], Rat(tw, WScale)) ELSE acc[1]

\* df[df['era'] == era]
EraFrame(fr, era) ==
    [cols |-> fr.cols, rows |-> SelectSeq(fr.rows, LAMBDA r : r["era"] = <<era>>)]

\* lines 107-113 over the first i keys of US_STD_2000: age_prev
RECURSIVE AgePrevLoop(_, _)
AgePrevLoop(era_df, i) ==
    IF i = 0 THEN <<>>
    ELSE LET acc == AgePrevLoop(era_df, i - 1)
             ag == AgeLabels[i]
             ag_df == [cols |-> era_df.cols,
                       rows |-> SelectSeq(era_df.rows,
                                          LAMBDA r : create_age_groups(r["RIDAGEYR"])
                                                       = <<ag>>)]
         IN  IF NRows(ag_df) > MinAgeGroupN
             THEN LET ag_prev == calculate_survey_weighted_prevalence(
                                     EstInput(ag_df, "chd_composite"))
                  IN  acc @@ (ag :> ag_prev.prevalence)
             ELSE acc

\* lines 115-126: the row of an era; prev['n_cases'] (line 121) raises
\* KeyError when the result has no such key
EraRow(era, n_total, prev, age_prev) ==
    IF "n_cases" \notin DOMAIN prev
    THEN [status |-> "KeyError", age_prev |-> age_prev, row |-> <<>>]
    ELSE [status |-> "ok", age_prev |-> age_prev,
          row |-> [era |-> era,
                   n_total |-> n_total,
                   n_chd |-> prev.n_cases,
                   crude_prevalence |-> prev.prevalence,
                   crude_ci_low |-> prev.ci_low,
                   crude_ci_high |-> prev.ci_high,
                   age_std_prevalence |->
                       IF DOMAIN age_prev # {} THEN age_standardize_exact(age_prev)
                       ELSE NaN]]

\* lines 101-113 for one era
PrevalenceRow(era_df, era) ==
    EraRow(era, NRows(era_df),
           calculate_survey_weighted_prevalence(EstInput(era_df, "chd_composite")),
           AgePrevLoop(era_df, Len(AgeLabels)))

\* results.append(...): the rows so far and the mapping of each era next to
\* its row
AppendRow(one, rest) ==
    IF rest.status # "ok" THEN rest
    ELSE [status |-> "ok",
          rows |-> <<one.row>> \o rest.rows,
          age_prevs |-> <<one.age_prev>> \o rest.age_prevs]

\* lines 100-126 over the eras that are left, the first of which gave `one'
RECURSIVE PrevalenceRows(_, _)
RowsAfter(one, fr, eras) ==
    IF one.status # "ok"
    THEN [status |-> one.status, rows |-> <<>>, age_prevs |-> <<>>]
    ELSE AppendRow(one, PrevalenceRows(fr, Tail(eras)))

PrevalenceRows(fr, eras) ==
    IF eras = <<>> THEN [status |-> "ok", rows |-> <<>>, age_prevs |-> <<>>]
    ELSE RowsAfter(PrevalenceRow(EraFrame(fr, Head(eras)), Head(eras)), fr, eras)

analyze_prevalence_by_era(fr) == PrevalenceRows(fr, ErasOf(fr))

\* lines 162-176 for one era, from the k-th label on
RECURSIVE SubgroupCells(_, _, _, _, _)
SubgroupCells(era_df, era, subgroup_var, subgroup_labels, k) ==
    IF k > Len(subgroup_labels) THEN [status |-> "ok", rows |-> <<>>]
    ELSE LET value == subgroup_labels[k].value
             label == subgroup_labels[k].label
             sub_df == [cols |-> era_df.cols,
                        rows |-> SelectSeq(era_df.rows,
                                           LAMBDA r : CellEq(r[subgroup_var], value))]
         IN  IF NRows(sub_df) > MinSubgroupN
             THEN LET prev == calculate_survey_weighted_prevalence(
                                  EstInput(sub_df, "chd_composite"))
                  IN  IF "n_cases" \notin DOMAIN prev
                      THEN [status |-> "KeyError", rows |-> <<>>]
                      ELSE LET rest == SubgroupCells(era_df, era, subgroup_var,
                                                     subgroup_labels, k + 1)
                           IN  IF rest.status # "ok" THEN rest
                               ELSE [status |-> "ok",
                                     rows |-> <<[era |-> era,
                                                 subgroup |-> label,
                                                 n_total |-> NRows(sub_df),
                                                 n_chd |-> prev.n_cases,
                                                 prevalence |-> prev.prevalence,
                                                 ci_low |-> prev.ci_low,
                                                 ci_high |-> prev.ci_high]>>
                                              \o rest.rows]
             ELSE SubgroupCells(era_df, era, subgroup_var, subgroup_labels, k + 1)

\* lines 159-176 over the eras that are left
RECURSIVE SubgroupRows(_, _, _, _)
SubgroupRows(fr, eras, subgroup_var, subgroup_labels) ==
    IF eras = <<>> THEN [status |-> "ok", rows |-> <<>>]
    ELSE LET era == Head(eras)
             cells == SubgroupCells(EraFrame(fr, era), era, subgroup_var,
                                    subgroup_labels, 1)
         IN  IF cells.status # "ok" THEN cells
             ELSE LET rest == SubgroupRows(fr, Tail(eras), subgroup_var, subgroup_labels)
                  IN  IF rest.status # "ok" THEN rest
                      ELSE [status |-> "ok", rows |-> cells.rows \o rest.rows]

\* df[subgroup_var] raises KeyError when the frame has no such column
analyze_by_subgroup(fr, subgroup_var, subgroup_labels) ==
    IF subgroup_var \notin fr.cols THEN [status |-> "KeyError", rows |-> <<>>]
    ELSE SubgroupRows(fr, ErasOf(fr), subgroup_var, subgroup_labels)

\* exclusions that let a weight of zero through
ExclusionsKeepZeroWeight(fr) ==
    [cols |-> fr.cols,
     rows |-> SelectSeq(fr.rows, LAMBDA r : /\ CellGe(r["RIDAGEYR"], 20)
                                            /\ ~IsMissing(r["chd_composite"])
                                            /\ CellGe(r["WTMEC2YR"], 0))]

\* main, lines 203, 207 and 211: a comparison with NaN is False
exclusions(fr) ==
    LET by_age == SelectSeq(fr.rows, LAMBDA r : CellGe(r["RIDAGEYR"], 20))
        by_chd == SelectSeq(by_age, LAMBDA r : ~IsMissing(r["chd_composite"]))
    IN  [cols |-> fr.cols,
         rows |-> SelectSeq(by_chd, LAMBDA r : /\ ~IsMissing(r["WTMEC2YR"])
                                               /\ r["WTMEC2YR"][1] > 0)]

(* The dataset main reads (line 195): participants of one era in three     *)
(* blocks around the two sample sizes, one participant of a second era or   *)
(* none, and records that the exclusions drop.                             *)

RunCols ==
    {"era", "RIDAGEYR", "RIAGENDR", "RIDRETH1", "chd_composite", "WTMEC2YR",
     "hypertension"}

Participant(era, age, sex, race, chd, w) ==
    [era |-> <<era>>, RIDAGEYR |-> age, RIAGENDR |-> <<sex>>, RIDRETH1 |-> <<race>>,
     chd_composite |-> chd, WTMEC2YR |-> w,
     hypertension |-> IF CellGe(age, 50) THEN <<1>> ELSE <<0>>]

Repeat(r, n) == [i \in 1..n |-> r]

\* the records the exclusions are there for
Dropped ==
    <<Participant(Eras[1], <<19>>, 1, 3, <<1>>, <<1>>),
      Participant(Eras[1], <<25>>, 1, 3, Missing, <<1>>),
      Participant(Eras[1], <<25>>, 1, 3, <<1>>, <<0>>),
      Participant(Eras[1], <<25>>, 1, 3, <<1>>, Missing),
      Participant(Eras[1], Missing, 1, 3, <<1>>, <<1>>)>>

\* the participant of the second era: a case or not
SecondEra ==
    {<<>>} \cup {<<Participant(Eras[2], <<85>>, 2, 1, <<c>>, <<3>>)>> : c \in {0, 1}}

LoadedFrames ==
    {[cols |-> RunCols,
      rows |-> Repeat(Participant(Eras[1], <<20>>, 1, 3, <<0>>, <<1>>), young)
               \o <<Participant(Eras[1], <<29>>, 1, 3, <<1>>, <<2>>)>>
               \o SelectSeq(Dropped, LAMBDA r : r \in junk)
               \o Repeat(Participant(Eras[1], <<45>>, 1, 3, <<0>>, <<1>>), middle)
               \o Repeat(Participant(Eras[1], <<55>>, 2, 4, <<0>>, <<1>>),
                         MinAgeGroupN + 1)
               \o <<Participant(Eras[1], <<59>>, 2, 4, <<1>>, <<1>>)>>
               \o other] :
        young \in (MinAgeGroupN - 2)..MinAgeGroupN,
        middle \in (MinSubgroupN - MinAgeGroupN - 1)..(MinSubgroupN - MinAgeGroupN),
        junk \in SUBSET {Dropped[i] : i \in 1..Len(Dropped)},
        other \in SecondEra}

InitRun ==
    /\ loaded \in LoadedFrames
    /\ analytic = <<>>
    /\ table2 = [status |-> "none", rows |-> <<>>]
    /\ pcAn = "idle"
    /\ prevalence_by_age = <<>>
    /\ total_weight = 0
    /\ standardized = NaN
    /\ age_std_prev = NaN
    /\ pcAge = "idle"
    /\ df = <<>>
    /\ result = [n |-> -1]
    /\ pcEst = "idle"
    /\ combined = EmptyFrame
    /\ pcMain = "idle"
    /\ adult = EmptyFrame
    /\ pcLegacy = "idle"
    /\ cycle = ""
    /\ cycle_dir = [demo |-> <<>>, comp |-> <<>>]
    /\ slice = [status |-> "none", df |-> EmptyFrame]
    /\ pcCycle = "idle"
    /\ data_raw = <<>>
    /\ cycle_idx = 0
    /\ all_data = <<>>
    /\ arg_var_type = ""
    /\ composite = [status |-> "none", series |-> <<>>]
    /\ pcChd = "idle"
    /\ age_arg = <<>>
    /\ group_cell = <<>>
    /\ pcGroup = "idle"
    /\ table1 = [status |-> "none", rows |-> <<>>]
    /\ age_prevs = <<>>
    /\ table3 = [status |-> "none", rows |-> <<>>]
    /\ table4 = [status |-> "none", rows |-> <<>>]
    /\ pcRun = "exclusions"

\* lines 203-211
ApplyExclusions ==
    /\ pcRun = "exclusions"
    /\ analytic' = exclusions(loaded)
    /\ pcRun' = "table1"
    /\ UNCHANGED <<loaded, table1, age_prevs, table2, table3, table4>>

\* what main keeps of the analyzer's result t
Table1Returns(t) ==
    /\ table1' = [status |-> t.status, rows |-> t.rows]
    /\ age_prevs' = t.age_prevs
    /\ pcRun' = IF t.status = "ok" THEN "table2" ELSE "failed"

\* line 223
Table1 ==
    /\ pcRun = "table1"
    /\ Table1Returns(analyze_prevalence_by_era(analytic))
    /\ UNCHANGED <<loaded, analytic, table2, table3, table4>>

\* line 231
Table2 ==
    /\ pcRun = "table2"
    /\ table2' = analyze_risk_factors_by_era(analytic)
    /\ pcRun' = IF table2'.status = "ok" THEN "table3" ELSE "failed"
    /\ UNCHANGED <<loaded, analytic, table1, age_prevs, table3, table4>>

\* lines 239-240
Table3 ==
    /\ pcRun = "table3"
    /\ table3' = analyze_by_subgroup(analytic, "RIAGENDR", sex_labels)
    /\ pcRun' = IF table3'.status = "ok" THEN "table4" ELSE "failed"
    /\ UNCHANGED <<loaded, analytic, table1, age_prevs, table2, table4>>

\* lines 248-255
Table4 ==
    /\ pcRun = "table4"
    /\ table4' = analyze_by_subgroup(analytic, "RIDRETH1", race_labels)
    /\ pcRun' = IF table4'.status = "ok" THEN "done" ELSE "failed"
    /\ UNCHANGED <<loaded, analytic, table1, age_prevs, table2, table3>>

NextRun ==
    /\ \/ ApplyExclusions
       \/ Table1
       \/ Table2
       \/ Table3
       \/ Table4
    /\ UNCHANGED <<ageVars, estVars, deriveVars, legacyVars, cycleVars, mainVars, chdVars,
                   groupVars, pcAn>>

----------------------------------------------------------------------------
(* The specifications: one per part of the pipeline.                       *)

SpecAge == InitAge /\ [][NextAge]_vars

SpecEst == InitEst /\ [][NextEst]_vars

SpecDerive == InitDerive /\ [][NextDerive]_vars

SpecCycle == InitCycle /\ [][NextCycle]_vars

SpecMain == InitMain /\ [][NextMain]_vars

SpecAnalyze == InitAnalyze /\ [][NextAnalyze]_vars

SpecRun == InitRun /\ [][NextRun]_vars

SpecGroups == InitGroups /\ [][NextGroups]_vars

----------------------------------------------------------------------------
(* The estimator.                                                          *)

\* the spec's valid records: outcome present and weight strictly positive
IsEligible(r) == IsValid(r) /\ r.weight[1] > 0
Eligible(recs) == SelectSeq(recs, IsEligible)

\* C1: the estimator uses only the records whose outcome is present and whose
\* weight is strictly positive: the sample size, the case count and the point
\* estimate are those of the eligible records alone.
C1_OnlyPositiveWeights ==
    pcEst = "returned" =>
        LET e == Eligible(df)
        IN  /\ result.n = Len(e)
            /\ "n_cases" \in DOMAIN result => result.n_cases = SumO(e)
            /\ Len(e) > 0 =>
                  result.prevalence = RatDiv(Rat(SumOW(e), 1), Rat(SumW(e), 1))

EstimationResultFields == {"prevalence", "se", "ci_low", "ci_high", "n", "n_cases"}

\* C2: with zero valid records the estimator returns a complete result: n = 0
\* and every other field (case count included) present and undefined.
C2_EmptyResultComplete ==
    (pcEst = "returned" /\ DropNA(df) = <<>>) =>
        /\ result.n = 0
        /\ DOMAIN result = EstimationResultFields
        /\ \A f \in DOMAIN result \ {"n"} : result[f] = NaN

\* the sign of a number of the model, a rational or a + (c/100) * sqrt(r)
Sgn(i) == IF i > 0 THEN 1 ELSE IF i < 0 THEN -1 ELSE 0

SignOf(x) ==
    IF x.k = "fin" THEN Sgn(x.n)
    ELSE LET root2 == x.c * x.c * x.rn * x.d * x.d
             rat2 == 10000 * x.n * x.n * x.rd
         IN  IF x.c > 0 THEN (IF x.n >= 0 THEN 1 ELSE Sgn(root2 - rat2))
             ELSE (IF x.n <= 0 THEN -1 ELSE Sgn(rat2 - root2))

IsNumber(x) == x.k \in {"fin", "surd"}

\* x - q for a rational q
Minus(x, q) ==
    IF x.k = "fin" THEN RatSub(x, q)
    ELSE LET a == RatSub(Rat(x.n, x.d), q)
         IN  [x EXCEPT !.n = a.n, !.d = a.d]

\* x <= y, where one of the two is a rational
Leq(x, y) ==
    /\ IsNumber(x)
    /\ IsNumber(y)
    /\ IF y.k = "fin" THEN SignOf(Minus(x, y)) <= 0 ELSE SignOf(Minus(y, x)) >= 0

\* the estimator was given a non-empty valid set: every record it keeps has a
\* strictly positive weight (its outcome is 0 or 1)
ValidSetGiven ==
    /\ pcEst = "returned"
    /\ DropNA(df) # <<>>
    /\ Eligible(df) = DropNA(df)

\* C13: for a non-empty valid set with a binary outcome the interval returned
\* satisfies 0 <= ci_low <= point estimate <= ci_high <= 1.
C13_IntervalOrdered ==
    ValidSetGiven =>
        /\ Leq(Rat(0, 1), result.ci_low)
        /\ Leq(result.ci_low, result.prevalence)
        /\ Leq(result.prevalence, result.ci_high)
        /\ Leq(result.ci_high, Rat(1, 1))

\* a lower bound clipped at 0 beside an upper bound that is not clipped
C13_Witness ==
    /\ ValidSetGiven
    /\ result.prevalence = Rat(1, 3)
    /\ result.ci_low = Rat(0, 1)
    /\ result.ci_high.k = "surd"

\* <<sum of outcome x weight, sum of weight, weight of the records with
\* outcome 1>> over records
RECURSIVE Totals(_)
Totals(recs) ==
    IF recs = <<>> THEN <<0, 0, 0>>
    ELSE LET t == Totals(Tail(recs))
             o == Head(recs).outcome[1]
             w == Head(recs).weight[1]
         IN  <<t[1] + o * w, t[2] + w, t[3] + (IF o = 1 THEN w ELSE 0)>>

\* C14: for a non-empty valid set the point estimate is the sum of outcome x
\* weight over the sum of the weights; with the binary outcome it lies in
\* [0, 1] and is the share of the weight that the records with outcome 1 hold.
C14_WeightedMean ==
    ValidSetGiven =>
        LET t == Totals(Eligible(df))
        IN  /\ result.prevalence = RatDiv(Rat(t[1], 1), Rat(t[2], 1))
            /\ result.prevalence = Rat(t[3], t[2])
            /\ Leq(Rat(0, 1), result.prevalence)
            /\ Leq(result.prevalence, Rat(1, 1))

\* one case of weight 2 among three records of total weight 4
C14_Witness ==
    /\ ValidSetGiven
    /\ Len(df) = 3
    /\ result.n_cases = 1
    /\ result.prevalence = Rat(1, 2)

----------------------------------------------------------------------------
(* Age standardization.                                                    *)

AllBuckets == DOMAIN US_STD_2000
BucketsGiven == DOMAIN prevalence_by_age \cap AllBuckets

\* C3: the reference weights over the seven buckets sum to exactly 1: a call
\* that is given all seven buckets accumulates a total weight of 1.
C3_WeightsSumToOne ==
    (pcAge = "returned" /\ BucketsGiven = AllBuckets) => total_weight = WScale

\* C4: with a prevalence for every bucket the standardized rate is the direct
\* weighted sum of prevalence x reference weight, not renormalized.
C4_AllBucketsDirectSum ==
    (pcAge = "returned" /\ BucketsGiven = AllBuckets) =>
        standardized = Rat(WeightedSum(prevalence_by_age), PrevDen * WScale)

\* C5: with exactly the 80+ bucket omitted the rate is the weighted sum over
\* the six others divided by (1 - weight[80+]); with some buckets omitted it
\* is the weighted sum divided by the sum of the weights used.
C5_RenormalizedByUsedWeight ==
    pcAge = "returned" =>
        LET s == Rat(WeightedSum(prevalence_by_age), PrevDen * WScale)
        IN  /\ BucketsGiven = AllBuckets \ {"80+"} =>
                  standardized = RatDiv(s, Rat(WScale - US_STD_2000["80+"], WScale))
            /\ (BucketsGiven # AllBuckets /\ BucketsGiven # {}) =>
                  standardized = RatDiv(s, Rat(total_weight, WScale))

\* C6: age_standardize given a mapping with none of the reference buckets
\* returns the undefined value, never 0 or another number.
C6_NoBucketUndefined ==
    (pcAge = "returned" /\ BucketsGiven = {}) => standardized = NaN

----------------------------------------------------------------------------
(* The derived variables.                                                  *)

\* the columns each derived-variable function reads
SourceCols(v) ==
    CASE v = "chd_composite" -> ChdCols
      [] v = "ldl_calc" -> LipidCols
      [] v = "hypertension" -> {"sbp1", "dbp1", "bp_med"}
      [] v = "diabetes" -> DmCols
      [] v = "hyperlipidemia" -> {"tchol", "ldl_calc"}
      [] v = "obesity" -> BmiCols
      [] v = "smoking_status" -> SmokeCols

DerivedVars ==
    {"chd_composite", "ldl_calc", "hypertension", "diabetes", "hyperlipidemia",
     "obesity", "smoking_status"}

\* C8: when a source column a derived-variable function reads is absent from
\* the dataset, its output column is missing for every record.
C8_AbsentColumnGivesMissing ==
    pcMain = "save" =>
        \A v \in DerivedVars :
            ~(SourceCols(v) \subseteq combined.cols) =>
                \A i \in 1..NRows(combined) : IsMissing(combined.rows[i][v])

\* the tri-state rule over three indicator cells and the composite cell
TriStateRule(a, b, c, out) ==
    LET yes(x) == CellEq(x, 1)
        no(x) == CellEq(x, 2)
    IN  /\ out = <<1>> <=> (yes(a) \/ yes(b) \/ yes(c))
        /\ out = <<0>> <=> (no(a) /\ no(b) /\ no(c))
        /\ IsMissing(out) <=> ~(yes(a) \/ yes(b) \/ yes(c)) /\ ~(no(a) /\ no(b) /\ no(c))

\* C9: the CHD composite is Positive (1) iff at least one of the three
\* indicators is Yes, Negative (0) iff all three are No, and missing in every
\* other case, in create_chd_composite and in harmonize_nhanes_iii alike.
C9_ChdTriState ==
    /\ "chd_composite" \in combined.cols =>
          \A i \in 1..NRows(combined) :
              TriStateRule(Col(combined, "MCQ160C")[i], Col(combined, "MCQ160D")[i],
                           Col(combined, "MCQ160E")[i], combined.rows[i]["chd_composite"])
    /\ pcLegacy = "harmonized" =>
          \A i \in 1..NRows(adult) :
              TriStateRule(adult.rows[i]["HAD1"], adult.rows[i]["HAD2"],
                           adult.rows[i]["HAD3"], adult.rows[i]["chd_composite"])

\* (missing, No, No) has been classified, as Unknown
C9_Witness ==
    /\ pcMain = "ldl_calc"
    /\ ChdCols \subseteq combined.cols
    /\ IsMissing(combined.rows[1]["MCQ160C"])
    /\ combined.rows[1]["MCQ160D"] = <<2>>
    /\ combined.rows[1]["MCQ160E"] = <<2>>
    /\ IsMissing(combined.rows[1]["chd_composite"])

\* C16: calculate_ldl gives TC - HDL - TG/5 when the three inputs are present
\* and TG < 400 (220, 50, 150 gives 140), and missing when TG >= 400, exactly
\* 400 included, whatever TC and HDL are, and when any of the three is missing.
C16_Friedewald ==
    "ldl_calc" \in combined.cols =>
        \A i \in 1..NRows(combined) :
            LET tc == Col(combined, "tchol")[i]
                hdl == Col(combined, "hdl")[i]
                tg == Col(combined, "trigly")[i]
                out == combined.rows[i]["ldl_calc"]
                present == ~IsMissing(tc) /\ ~IsMissing(hdl) /\ ~IsMissing(tg)
            IN  /\ (present /\ tg[1] < 400) =>
                      /\ ~IsMissing(out)
                      /\ 5 * out[1] = 5 * tc[1] - 5 * hdl[1] - tg[1]
                /\ (~IsMissing(tg) /\ tg[1] >= 400) => IsMissing(out)
                /\ ~present => IsMissing(out)
                /\ (tc = <<220>> /\ hdl = <<50>> /\ tg = <<150>>) => out = <<140>>

\* TC = 220, HDL = 50, TG = 150 has been given 140
C16_Witness ==
    /\ pcMain = "hypertension"
    /\ LipidCols \subseteq combined.cols
    /\ combined.rows[1]["tchol"] = <<220>>
    /\ combined.rows[1]["hdl"] = <<50>>
    /\ combined.rows[1]["trigly"] = <<150>>
    /\ combined.rows[1]["ldl_calc"] = <<140>>

\* the five sub-conditions of diabetes on record i
DiabetesConditions(i) ==
    {CellGe(Col(combined, "hba1c")[i], 65),
     CellGe(Col(combined, "glucose")[i], 126),
     CellEq(Col(combined, "insulin_use")[i], 1),
     CellEq(Col(combined, "oral_dm_med")[i], 1),
     CellEq(Col(combined, "diabetes_told")[i], 1)}

C19_LookupNeverRaises ==
    pcChd = "returned" =>
        /\ composite.status = "ok"
        /\ arg_var_type \notin DOMAIN CHD_VARS =>
              /\ Len(composite.series) = NRows(combined)
              /\ \A i \in 1..NRows(combined) : IsMissing(composite.series[i])

\* the k-th assignment of define_smoking_status applied to the status so far
Assignment(k, status, lifetime, current) ==
    CASE k = 1 -> IF CellEq(lifetime, 2) THEN <<3>> ELSE status
      [] k = 2 -> IF CellEq(lifetime, 1) /\ (CellEq(current, 1) \/ CellEq(current, 2))
                  THEN <<1>> ELSE status
      [] k = 3 -> IF CellEq(lifetime, 1) /\ CellEq(current, 3) THEN <<2>> ELSE status

\* the status after the three assignments in the order o
InOrder(o, lifetime, current) ==
    Assignment(o[3],
               Assignment(o[2], Assignment(o[1], Missing, lifetime, current),
                          lifetime, current),
               lifetime, current)

Orders == {o \in [1..3 -> 1..3] : {o[1], o[2], o[3]} = 1..3}

\* C15: smoking status is Never (3) iff lifetime = No, whatever the current
\* answer; Current (1) iff lifetime = Yes and current is every day or some
\* days; Former (2) iff lifetime = Yes and current = not at all; Unknown in
\* every other case; and the three assignments give it in any order.
C15_SmokingStatus ==
    "smoking_status" \in combined.cols =>
        \A i \in 1..NRows(combined) :
            LET lifetime == Col(combined, "smoke_100")[i]
                current == Col(combined, "smoke_now")[i]
                out == combined.rows[i]["smoking_status"]
                never == CellEq(lifetime, 2)
                smokes == CellEq(lifetime, 1) /\ (CellEq(current, 1) \/ CellEq(current, 2))
                quit == CellEq(lifetime, 1) /\ CellEq(current, 3)
            IN  /\ out = <<3>> <=> never
                /\ out = <<1>> <=> smokes
                /\ out = <<2>> <=> quit
                /\ IsMissing(out) <=> ~(never \/ smokes \/ quit)
                /\ \A o \in Orders : InOrder(o, lifetime, current) = out

\* lifetime = No with current = every day has been classified, as Never
C15_Witness ==
    /\ pcMain = "save"
    /\ SmokeCols \subseteq combined.cols
    /\ combined.rows[1]["smoke_100"] = <<2>>
    /\ combined.rows[1]["smoke_now"] = <<1>>
    /\ combined.rows[1]["smoking_status"] = <<3>>

----------------------------------------------------------------------------
(* The harmonizer.                                                         *)

\* the source columns of the component tables that process_cycle merged
LoadedCols ==
    UNION {load_xpt(cycle_dir.comp[c][1]).cols :
              c \in {x \in ModelledComponents : cycle_dir.comp[x] # <<>>}}

Registered(tbl) == {tbl[k] : k \in DOMAIN tbl}
CanonicalOf(tbl, src) == CHOOSE k \in DOMAIN tbl : tbl[k] = src

\* C7: process_cycle renames every registered source column of the cycle to
\* its canonical name (BMXBMI -> bmi, ...) and drops every column that has no
\* registry entry.
C7_RenamedToCanonical ==
    (pcCycle = "returned" /\ slice.status = "ok" /\ NRows(slice.df) > 0) =>
        \A c \in LoadedCols :
            /\ c \in Registered(RISK_FACTOR_VARS) =>
                  /\ CanonicalOf(RISK_FACTOR_VARS, c) \in slice.df.cols
                  /\ c \notin slice.df.cols
            /\ c \notin Registered(RISK_FACTOR_VARS) \cup Registered(DEMO_VARS) =>
                  c \notin slice.df.cols

\* C10: when the demographic table is not found, or is found and loads as
\* empty, process_cycle returns an empty slice and does not raise.
C10_NoDemoEmptySlice ==
    (pcCycle = "returned" /\
     (cycle_dir.demo = <<>> \/ NRows(load_xpt(cycle_dir.demo[1])) = 0)) =>
        /\ slice.status = "ok"
        /\ NRows(slice.df) = 0

\* the demographic table process_cycle anchors on, and the subjects of a frame
DemoTable == load_xpt(cycle_dir.demo[1])
SeqnSet(fr) == {fr.rows[i]["SEQN"] : i \in 1..NRows(fr)}

\* the components whose table process_cycle joins
Joined == {c \in ModelledComponents :
              /\ cycle_dir.comp[c] # <<>>
              /\ NRows(load_xpt(cycle_dir.comp[c][1])) > 0}

\* the name a column of component c has in the slice
OutName(c, col) ==
    IF (col \o "_" \o c) \in slice.df.cols THEN col \o "_" \o c ELSE col

\* the row of subject s in the table of component c (<<>>: none)
ComponentRow(c, s) ==
    SelectSeq(load_xpt(cycle_dir.comp[c][1]).rows, LAMBDA r : r["SEQN"] = s)

\* C12: process_cycle anchors on the demographic table and left-joins every
\* component on SEQN: the subjects of the slice are exactly those of the
\* demographic table, and a subject that a component does not hold has that
\* component's fields missing (one it holds has the component's values).
C12_LeftJoinKeepsSubjects ==
    (pcCycle = "returned" /\ cycle_dir.demo # <<>> /\ "SEQN" \in DemoTable.cols) =>
        /\ slice.status = "ok"
        /\ SeqnSet(slice.df) = SeqnSet(DemoTable)
        /\ \A c \in Joined : \A i \in 1..NRows(slice.df) :
              \A col \in load_xpt(cycle_dir.comp[c][1]).cols \ {"SEQN"} :
                  LET m == ComponentRow(c, slice.df.rows[i]["SEQN"])
                      cell == slice.df.rows[i][OutName(c, col)]
                  IN  IF m = <<>> THEN IsMissing(cell) ELSE cell = m[1][col]

\* subject 2 is in the demographic table and not in BMX, subject 3 the reverse
C12_Witness ==
    /\ pcCycle = "returned"
    /\ slice.status = "ok"
    /\ cycle_dir.demo # <<>>
    /\ "BMX" \in Joined
    /\ SeqnSet(DemoTable) = {<<1>>, <<2>>}
    /\ SeqnSet(load_xpt(cycle_dir.comp["BMX"][1])) = {<<1>>, <<3>>}
    /\ \E i \in 1..NRows(slice.df) :
          slice.df.rows[i]["SEQN"] = <<2>> /\ IsMissing(slice.df.rows[i]["BMXBMI"])

\* the era of the era-lookup table for a cycle identifier
EraLookup(cyc) ==
    CASE cyc = "1988-1994" -> "Era1_1988-1994"
      [] cyc \in {"1999-2000", "2001-2002", "2003-2004", "2005-2006"} -> "Era2_1999-2006"
      [] cyc \in {"2007-2008", "2009-2010", "2011-2012", "2013-2014"} -> "Era3_2007-2014"
      [] cyc \in {"2015-2016", "2017-2020"} -> "Era4a_2015-2020"
      [] cyc = "2021-2023" -> "Era4b_2021-2023"
      [] OTHER -> "Unknown"

\* C18: every row of a slice carries the cycle identifier as its cycle tag
\* and the era-lookup entry of the cycle as its era tag, neither missing; a
\* cycle the lookup table does not hold gets the era "Unknown", and
\* process_cycle ends for it as it does for a cycle the table holds.
C18_TagsOnEveryRow ==
    pcCycle = "returned" =>
        /\ slice.status = "ok" =>
              /\ NRows(slice.df) > 0 => {"cycle", "era"} \subseteq slice.df.cols
              /\ \A i \in 1..NRows(slice.df) :
                    /\ slice.df.rows[i]["cycle"] = <<cycle>>
                    /\ slice.df.rows[i]["era"] = <<EraLookup(cycle)>>
        /\ cycle \notin DOMAIN ERA_MAPPING =>
              slice.status = process_cycle("2001-2002", cycle_dir).status

\* a slice with rows for a cycle the lookup table does not hold
C18_Witness ==
    /\ pcCycle = "returned"
    /\ cycle = "1997-1998"
    /\ slice.status = "ok"
    /\ NRows(slice.df) = 2
    /\ slice.df.rows[2]["era"] = <<"Unknown">>

----------------------------------------------------------------------------
(* The harmonization run.                                                  *)

\* cycle i of the list has a directory but no demographic table: no DEMO
\* file, or a DEMO file whose load gives no record
NoDemoTable(i) ==
    /\ data_raw[i] # <<>>
    /\ \/ data_raw[i][1].demo = <<>>
       \/ NRows(load_xpt(data_raw[i][1].demo[1])) = 0

\* the slice of cycle i
SliceOf(i) ==
    IF data_raw[i] = <<>> THEN Returned(EmptyFrame)
    ELSE process_cycle(Cycles[i], data_raw[i][1])

\* the non-empty slices of the first k cycles, in list order
RECURSIVE NonEmptySlices(_)
NonEmptySlices(k) ==
    IF k = 0 THEN <<>>
    ELSE IF NRows(SliceOf(k).df) > 0
         THEN Append(NonEmptySlices(k - 1), SliceOf(k).df)
         ELSE NonEmptySlices(k - 1)

\* C11: in the run over the list of cycles, a cycle with no demographic table
\* contributes no rows and does not stop the run: the run is never ended by
\* an exception once such a cycle has been reached, every cycle of the list is
\* processed before the slices are combined, and the combined dataset is the
\* concatenation, in list order, of the non-empty slices.
C11_NoDemoCycleSkipped ==
    /\ \A i \in 1..cycle_idx :
          NoDemoTable(i) =>
              /\ pcMain # "KeyError"
              /\ \A k \in 1..Len(all_data) : \A j \in 1..NRows(all_data[k]) :
                    all_data[k].rows[j]["cycle"] # <<Cycles[i]>>
    /\ pcMain = "loop" => all_data = NonEmptySlices(cycle_idx)
    /\ pcMain = "chd_composite" =>
          /\ cycle_idx = Len(Cycles)
          /\ combined = Concat(NonEmptySlices(Len(Cycles)))

----------------------------------------------------------------------------
(* The analyzers.                                                          *)

\* the CHD-positive records of an era
CasesOf(era) ==
    SelectSeq(analytic.rows,
              LAMBDA r : r["era"] = <<era>> /\ r["chd_composite"] = <<1>>)

\* C20: the risk-factor analyzer never raises because an estimation call had
\* zero valid records: it returns one row for every era of the data, and for
\* an era with no CHD-positive record that row has n_chd = 0 and an undefined
\* prevalence for every risk factor of the data.
C20_AnalyzerSurvivesEmptyCell ==
    pcAn = "returned" =>
        /\ table2.status = "ok"
        /\ Len(table2.rows) = Len(ErasOf(analytic))
        /\ \A k \in 1..Len(table2.rows) :
              LET row == table2.rows[k]
              IN  /\ row.era = ErasOf(analytic)[k]
                  /\ row.n_chd = Len(CasesOf(row.era))
                  /\ row.n_chd = 0 =>
                        \A j \in 1..Len(RiskFactors) :
                            RiskFactors[j] \in analytic.cols =>
                                row[RiskFactors[j] \o "_prev"] = NaN

\* the bucket of an age of 20 .. 119 years
BucketOf(a) ==
    CASE a \in 20..29 -> "20-29"
      [] a \in 30..39 -> "30-39"
      [] a \in 40..49 -> "40-49"
      [] a \in 50..59 -> "50-59"
      [] a \in 60..69 -> "60-69"
      [] a \in 70..79 -> "70-79"
      [] a \in 80..119 -> "80+"

\* C27: create_age_groups gives every age of 20 .. 119 years exactly one of
\* the seven reference buckets, lower bounds inclusive and upper bounds
\* exclusive (29 -> 20-29, 30 -> 30-39, 79 -> 70-79, 80 and above -> 80+), and
\* no bucket to an age below 20, an age of 120 or more, or a missing age; the
\* labels are exactly the keys of US_STD_2000.
C27_AgeGroups ==
    pcGroup = "returned" =>
        /\ IF ~IsMissing(age_arg) /\ age_arg[1] \in 20..119
           THEN /\ group_cell = <<BucketOf(age_arg[1])>>
                /\ group_cell[1] \in DOMAIN US_STD_2000
           ELSE IsMissing(group_cell)
        /\ {GroupLabels[i] : i \in 1..Len(GroupLabels)} = DOMAIN US_STD_2000
        /\ Len(GroupLabels) = Cardinality(DOMAIN US_STD_2000)

\* the age 80, a lower bound, is in the bucket it opens
C27_Witness ==
    /\ pcGroup = "returned"
    /\ age_arg = <<80>>
    /\ group_cell = <<"80+">>

\* the stages of the derivation sequence that follow the LDL step
AfterLdl == {"hypertension", "diabetes", "hyperlipidemia", "obesity",
             "smoking_status", "save"}

\* TC - HDL - TG/5 >= 130 with the three inputs present and TG < 400
LdlAtLeast130(tc, hdl, tg) ==
    /\ tc # <<>>
    /\ hdl # <<>>
    /\ tg # <<>>
    /\ tg[1] < 400
    /\ 5 * tc[1] - 5 * hdl[1] - tg[1] >= 650

\* C25: hyperlipidemia is 1 iff total cholesterol >= 200 or the Friedewald LDL
\* of the same record >= 130, and 0 otherwise; ldl_calc is in the dataset at
\* every stage after the LDL step, so before define_hyperlipidemia reads it; a
\* record with TC < 200 and TG >= 400 is not hyperlipidemic.
C25_HyperlipidemiaUsesLdl ==
    /\ pcMain \in AfterLdl => "ldl_calc" \in combined.cols
    /\ "hyperlipidemia" \in combined.cols =>
          \A i \in 1..NRows(combined) :
              LET tc == Col(combined, "tchol")[i]
                  hdl == Col(combined, "hdl")[i]
                  tg == Col(combined, "trigly")[i]
                  out == combined.rows[i]["hyperlipidemia"]
                  high == (tc # <<>> /\ tc[1] >= 200) \/ LdlAtLeast130(tc, hdl, tg)
              IN  /\ out = IF high THEN <<1>> ELSE <<0>>
                  /\ (tc # <<>> /\ tc[1] < 200 /\ tg # <<>> /\ tg[1] >= 400)
                        => out = <<0>>

\* TC = 190 with HDL = 30 and TG = 150 is hyperlipidemic by its LDL of 130
C25_Witness ==
    /\ pcMain = "obesity"
    /\ LipidCols \subseteq combined.cols
    /\ combined.rows[1]["tchol"] = <<190>>
    /\ combined.rows[1]["hdl"] = <<30>>
    /\ combined.rows[1]["trigly"] = <<150>>
    /\ combined.rows[1]["ldl_calc"] = <<130>>
    /\ combined.rows[1]["hyperlipidemia"] = <<1>>

\* TC = 190 with TG = 400 has no LDL and is not hyperlipidemic
C25_WitnessNoLdl ==
    /\ pcMain = "obesity"
    /\ LipidCols \subseteq combined.cols
    /\ combined.rows[1]["tchol"] = <<190>>
    /\ combined.rows[1]["trigly"] = <<400>>
    /\ combined.rows[1]["ldl_calc"] = <<>>
    /\ combined.rows[1]["hyperlipidemia"] = <<0>>

\* the place of a component in the order process_cycle joins them
JoinIndex(c) == CHOOSE i \in 1..Len(Components) : Components[i] = c

\* the table of a joined component
ComponentTable(c) == load_xpt(cycle_dir.comp[c][1])

\* column col of component c is already in the accumulated table when c joins
AlreadyThere(c, col) ==
    \/ col \in DemoTable.cols
    \/ \E e \in Joined : JoinIndex(e) < JoinIndex(c) /\ col \in ComponentTable(e).cols

\* the name under which column col of component c is expected in the slice
ExpectedName(c, col) == IF AlreadyThere(c, col) THEN col \o "_" \o c ELSE col

\* the row of subject s in the demographic table
DemoRow(s) == SelectSeq(DemoTable.rows, LAMBDA r : r["SEQN"] = s)

\* C23: a joined component's non-key column whose name the accumulated table
\* already has is added as '<column>_<component>', and the column that was
\* there keeps its name and its values: after all the joins every column of
\* the demographic table and of every joined component is in the slice, under
\* its own name or the suffixed one, with the values of its own table.
C23_SuffixKeepsBothColumns ==
    (pcCycle = "returned" /\ cycle_dir.demo # <<>> /\ "SEQN" \in DemoTable.cols
     /\ NRows(DemoTable) > 0) =>
        /\ slice.status = "ok"
        /\ \A i \in 1..NRows(slice.df) :
              LET s == slice.df.rows[i]["SEQN"]
              IN  /\ \A col \in DemoTable.cols :
                        slice.df.rows[i][col] = DemoRow(s)[1][col]
                  /\ \A c \in Joined : \A col \in ComponentTable(c).cols \ {"SEQN"} :
                        LET m == ComponentRow(c, s)
                            n == ExpectedName(c, col)
                        IN  /\ n \in slice.df.cols
                            /\ slice.df.rows[i][n] =
                                  IF m = <<>> THEN Missing ELSE m[1][col]

\* GLU and TRIGLY both bring WTSAF2YR: subject 1 has both values
C23_Witness ==
    /\ pcCycle = "returned"
    /\ slice.status = "ok"
    /\ cycle_dir.demo # <<>>
    /\ {"GLU", "TRIGLY"} \subseteq Joined
    /\ AlreadyThere("TRIGLY", "WTSAF2YR")
    /\ \E i \in 1..NRows(slice.df) :
          /\ slice.df.rows[i]["SEQN"] = <<1>>
          /\ slice.df.rows[i]["WTSAF2YR"] = <<2001>>
          /\ slice.df.rows[i]["WTSAF2YR_TRIGLY"] = <<3001>>

\* the category codes of the legacy survey and those of the later cycles
LegacyCodes == {1, 2, 3, 4}
CanonicalCodes == {race_labels[i].value : i \in 1..Len(race_labels)}

\* the category a canonical code stands for
CanonicalLabel(k) ==
    race_labels[CHOOSE i \in 1..Len(race_labels) : race_labels[i].value = k].label

\* the category a legacy code stands for, under the name the later cycles use
LegacyLabel(k) ==
    CASE k = 1 -> "Non-Hispanic White"
      [] k = 2 -> "Non-Hispanic Black"
      [] k = 3 -> "Mexican American"
      [] k = 4 -> "Other/Multi-racial"

\* the codes the recode gives the legacy codes
RecodeImage == {race_recode(<<k>>)[1] : k \in LegacyCodes}

\* what the recode has to give a legacy race cell
ExpectedRace(c) ==
    IF c = <<1>> THEN <<3>>
    ELSE IF c = <<2>> THEN <<4>>
    ELSE IF c = <<3>> THEN <<1>>
    ELSE IF c = <<4>> THEN <<5>>
    ELSE <<>>

\* one harmonization step recodes the race cell of every record as expected
RecodesEveryRecord ==
    /\ NRows(adult') = NRows(adult)
    /\ \A i \in 1..NRows(adult) :
          adult'.rows[i]["RIDRETH1"] = ExpectedRace(adult.rows[i]["DMARETHN"])

\* the recode keeps the category of every legacy code and gives no two legacy
\* codes the same code
RecodeKeepsMeaning ==
    /\ \A k \in LegacyCodes :
          /\ race_recode(<<k>>) # <<>>
          /\ race_recode(<<k>>)[1] \in CanonicalCodes
          /\ CanonicalLabel(race_recode(<<k>>)[1]) = LegacyLabel(k)
    /\ \A a, b \in LegacyCodes : race_recode(<<a>>) = race_recode(<<b>>) => a = b

\* C24, as stated: the recode of harmonize_nhanes_iii maps legacy codes
\* 1,2,3,4 to canonical codes 3,4,1,5 with the same meaning, is injective, maps
\* the set of legacy codes onto the set of canonical codes, and gives missing
\* for a value outside the legacy codes.
C24_AsStated ==
    [][HarmonizeNhanesIII =>
          /\ RecodesEveryRecord
          /\ RecodeKeepsMeaning
          /\ RecodeImage = CanonicalCodes]_vars

\* C24, amended: the recode maps legacy codes 1,2,3,4 to canonical codes
\* 3,4,1,5 with the same meaning and is injective; its image is the canonical
\* codes without 2 (Other Hispanic), which no legacy record is given; a value
\* outside the legacy codes becomes missing.
C24_RaceRecode ==
    [][HarmonizeNhanesIII =>
          /\ RecodesEveryRecord
          /\ RecodeKeepsMeaning
          /\ RecodeImage = CanonicalCodes \ {2}]_vars

\* a legacy record has been harmonized and carries canonical code 5
C24_Witness ==
    /\ pcLegacy = "harmonized"
    /\ NRows(adult) = 1
    /\ adult.rows[1]["RIDRETH1"] = <<5>>

\* a record that passes the three exclusions of the analysis run
Kept(r) ==
    /\ r["RIDAGEYR"] # <<>>
    /\ r["RIDAGEYR"][1] >= 20
    /\ r["chd_composite"] # <<>>
    /\ r["WTMEC2YR"] # <<>>
    /\ r["WTMEC2YR"][1] > 0

\* the records of the loaded dataset that pass, and how many of them P holds of
KeptRows == SelectSeq(loaded.rows, Kept)
KeptCount(P(_)) == Len(SelectSeq(KeptRows, P))

\* the value a label of a subgroup table stands for
ValueOf(labels, label) ==
    labels[CHOOSE i \in 1..Len(labels) : labels[i].label = label].value

\* every row of a subgroup table counts the kept records of its era and value
CountsKept(table, column, labels) ==
    table.status = "ok" =>
        \A k \in 1..Len(table.rows) :
            LET row == table.rows[k]
            IN  row.n_total =
                    KeptCount(LAMBDA r : /\ r["era"] = <<row.era>>
                                         /\ r[column] = <<ValueOf(labels, row.subgroup)>>)

\* C26: the three exclusions are applied before any analyzer is called: no
\* table exists before them, and afterwards the records the analyzers are
\* given are exactly the loaded records with age >= 20, a CHD composite and a
\* weight > 0, in their order; every table counts those records and no other.
C26_ExclusionsFirst ==
    /\ pcRun = "exclusions" =>
          /\ table1.status = "none"
          /\ table2.status = "none"
          /\ table3.status = "none"
          /\ table4.status = "none"
    /\ pcRun \in {"table1", "table2", "table3", "table4", "done", "failed"} =>
          /\ analytic.rows = KeptRows
          /\ \A i \in 1..NRows(analytic) : Kept(analytic.rows[i])
    /\ table1.status = "ok" =>
          \A k \in 1..Len(table1.rows) :
              table1.rows[k].n_total =
                  KeptCount(LAMBDA r : r["era"] = <<table1.rows[k].era>>)
    /\ table2.status = "ok" =>
          \A k \in 1..Len(table2.rows) :
              table2.rows[k].n_chd =
                  KeptCount(LAMBDA r : /\ r["era"] = <<table2.rows[k].era>>
                                       /\ r["chd_composite"] = <<1>>)
    /\ CountsKept(table3, "RIAGENDR", sex_labels)
    /\ CountsKept(table4, "RIDRETH1", race_labels)

\* a run over a dataset with the five kinds of excluded record and a
\* participant aged exactly 20 has written its four tables
C26_Witness ==
    /\ pcRun = "done"
    /\ NRows(loaded) = NRows(analytic) + Len(Dropped)
    /\ \E i \in 1..NRows(analytic) : analytic.rows[i]["RIDAGEYR"] = <<20>>
    /\ table1.status = "ok"
    /\ table4.status = "ok"

\* the kept records of an era in an age bucket
BucketCount(era, b) ==
    KeptCount(LAMBDA r : /\ r["era"] = <<era>>
                         /\ r["RIDAGEYR"][1] < 120
                         /\ BucketOf(r["RIDAGEYR"][1]) = b)

\* C21: an age bucket is in the mapping given to age_standardize for an era
\* iff the era has at least 30 valid records in the bucket (exactly 30
\* included); a bucket in the mapping has a prevalence that is a number.
C21_BucketAtLeast30 ==
    table1.status = "ok" =>
        \A k \in 1..Len(table1.rows) : \A b \in DOMAIN US_STD_2000 :
            /\ b \in DOMAIN age_prevs[k] <=> BucketCount(table1.rows[k].era, b) >= 30
            /\ b \in DOMAIN age_prevs[k] => IsFin(age_prevs[k][b])

\* the rows of a subgroup table for an era and a label
CellRows(table, era, label) ==
    SelectSeq(table.rows, LAMBDA row : row.era = era /\ row.subgroup = label)

\* a subgroup table has a row for a cell iff the cell has at least 50 records
ReportedFrom50(table, column, labels) ==
    table.status = "ok" =>
        \A e \in 1..Len(Eras) : \A l \in 1..Len(labels) :
            Len(CellRows(table, Eras[e], labels[l].label)) =
                IF KeptCount(LAMBDA r : /\ r["era"] = <<Eras[e]>>
                                        /\ r[column] = <<labels[l].value>>) >= 50
                THEN 1 ELSE 0

\* C22: analyze_by_subgroup gives a subgroup/era cell a row iff the cell has
\* at least 50 valid records (exactly 50 included); a cell with fewer has no
\* row at all.
C22_CellAtLeast50 ==
    /\ ReportedFrom50(table3, "RIAGENDR", sex_labels)
    /\ ReportedFrom50(table4, "RIDRETH1", race_labels)

=============================================================================
